---- MODULE Spec2Model ----
(***************************************************************************)
(* CaptainManager (src/src/user/system/CaptainManager.ts) as a state       *)
(* machine: the health monitor loop, the domain-ownership verifier and the *)
(* root SSL operations.  Every callback of the event loop (a timer firing, *)
(* a response arriving, a promise continuation running) is one action.     *)
(***************************************************************************)
EXTENDS Integers, Sequences, FiniteSets, TLC

\* ------------------------------------------------------------------------
\* Program constants
MAX_FAIL_ALLOWED == 4
HEALTH_CHECK_INTERVAL == 20000
TIMEOUT_HEALTH_CHECK == 15000

\* ------------------------------------------------------------------------
\* Bounds of the model
\* closures of performHealthCheck with probes under way
MaxCycles == 2
\* verification attempts of decided cycles that have yet to write their file
MaxLate == 1
\* verifyCaptainOwnsDomainOrThrow calls made by callers other than the health
\* monitor in one run
MaxAttempts == 2
\* enableSsl, forceSsl and changeCaptainRootDomain calls in one run
MaxCalls == 2
\* Authenticator instances constructed in one run
MaxAuthenticators == 3
\* stderr data events and connection error events of one joinDockerNode call
MaxStderr == 2
MaxConnErrors == 1
\* joinDockerNode calls in one run
MaxJoins == 2
\* setNginxConfig calls in one run
MaxConfigCalls == 2

Cycles == 1..MaxCycles
AttemptIds == 1..MaxAttempts
CallIds == 1..MaxCalls
JoinIds == 1..MaxJoins
ConfigCallIds == 1..MaxConfigCalls

Domains == {"captain.root", "app.other"}
\* identifierSuffix as passed by the caller
Suffixes == {"undefined", "", "-healthcheck"}

\* an empty response body, and a non-empty body that is no token
EmptyBody == 0
Garbage == 0 - 1

VARIABLES
    isDebug,                          \* CaptainConstants.isDebug
    hasCustomDomain,                  \* dataStore.hasCustomDomain()
    consecutiveHealthCheckFailCount,  \* this.consecutiveHealthCheckFailCount
    healthCheckUuid,                  \* this.healthCheckUuid
    cycleUuid,                        \* the token in force at the latest performHealthCheck()
    hcPending,                        \* armed timers that will call performHealthCheck
    exitStatus,                       \* "running", "exit(0)" or "exit(1)"
    cycles,                           \* the closures of performHealthCheck, latest first
    late,                             \* attempts of earlier cycles that have not written yet
    failedInARow,                     \* decided cycles with a failed probe since the last clean one
    files,                            \* confirmation files on disk, by path
    attempts,                         \* verifyCaptainOwnsDomainOrThrow calls of other callers
    storedHasRootSsl,                 \* dataStore.getHasRootSsl()
    storedForceSsl,                   \* dataStore.getForceSsl()
    hasForceSsl,                      \* this.hasForceSsl
    rootDomain,                       \* dataStore.getRootDomain()
    userEmailAddress,                 \* dataStore.setUserEmailAddress()
    calls,                            \* enableSsl, forceSsl, changeCaptainRootDomain calls
    inited,                           \* this.inited
    myNodeId,                         \* this.myNodeId
    captainSalt,                      \* this.captainSalt
    boot,                             \* the promise chain of initialize()
    exitTimer,                        \* the timer of process.exit(0) is armed
    authenticatorCache,               \* CaptainManager.authenticatorCache
    authenticators,                   \* the Authenticator instances constructed
    authReturn,                       \* what the latest getAuthenticator call gave
    join,                             \* the joinDockerNode calls
    nginxConfig,                      \* dataStore.getNginxConfig()
    configCalls                       \* the setNginxConfig calls

healthVars == <<isDebug, cycleUuid, hasCustomDomain, consecutiveHealthCheckFailCount,
                healthCheckUuid, hcPending, exitStatus, cycles, late, failedInARow>>
verifyVars == <<files, attempts>>
sslVars == <<storedHasRootSsl, storedForceSsl, hasForceSsl, rootDomain,
             userEmailAddress, calls>>
bootVars == <<inited, myNodeId, captainSalt, boot, exitTimer>>
authVars == <<authenticatorCache, authenticators, authReturn>>
joinVars == <<join>>
configVars == <<nginxConfig, configCalls>>
sysVars == <<bootVars, authVars, joinVars, configVars>>
vars == <<healthVars, verifyVars, sslVars, sysVars>>

\* ------------------------------------------------------------------------
\* uuid(): a value that differs from every token held anywhere in the state.
\* Tokens are only ever compared for equality, so the least unused one stands
\* for a random draw.  A cycle token is only ever compared with what the
\* health endpoint serves and a verification token with what a confirmation
\* file holds, so the two kinds are drawn from two ranges.
PathSeq == <<<<"captain.root", "">>, <<"captain.root", "-healthcheck">>,
            <<"app.other", "">>, <<"app.other", "-healthcheck">>>>
Paths == {PathSeq[i] : i \in 1..Len(PathSeq)}
CycleTokens == 1..3
VerifyTokens == 4..(4 + Cardinality(Paths) + MaxCycles + MaxAttempts)

LiveCycleTokens == {healthCheckUuid, cycleUuid}
LiveVerifyTokens ==
    {files[p] : p \in Paths}
    \cup {cycles[c].att.randomUuid : c \in Cycles}
    \cup {late[i].randomUuid : i \in 1..Len(late)}
    \cup {attempts[i].randomUuid : i \in AttemptIds}

fresh(pool, live) == CHOOSE t \in pool :
                        /\ t \notin live
                        /\ \A u \in pool : u \notin live => t <= u
uuidOfCycle == fresh(CycleTokens, LiveCycleTokens)
uuid == fresh(VerifyTokens, LiveVerifyTokens)

\* ------------------------------------------------------------------------
\* verifyCaptainOwnsDomainOrThrow: the promise chain of one attempt

\* a confirmation path that leaves the suffix out
confirmationSuffix_Ignored(identifierSuffix) == ""

\* captainConfirmationPath + (identifierSuffix ? identifierSuffix : '')
confirmationSuffix(identifierSuffix) ==
    IF identifierSuffix = "undefined" \/ identifierSuffix = ""
    THEN "" ELSE identifierSuffix

\* the file written and the URL polled: both are domainName + captainConfirmationPath
confirmationPath(a) == <<a.domainName, confirmationSuffix(a.identifierSuffix)>>

NoAttempt ==
    [pc |-> "idle", domainName |-> "captain.root", identifierSuffix |-> "undefined",
     randomUuid |-> 0, result |-> "none", log |-> <<>>,
     error |-> FALSE, body |-> EmptyBody]

\* the synchronous part of the call: randomUuid = uuid(), the chain is created
newAttempt(domainName, identifierSuffix, token) ==
    [NoAttempt EXCEPT !.pc = "valid", !.domainName = domainName,
                      !.identifierSuffix = identifierSuffix, !.randomUuid = token]

\* a validity check whose failure is turned into a verification failure
domainValidOrThrow_Wrapped(a, valid) ==
    IF valid
    THEN [a EXCEPT !.pc = "write", !.log = Append(@, "valid")]
    ELSE [a EXCEPT !.pc = "done", !.log = Append(@, "valid"),
                   !.result = "VerificationFailed"]

\* certbotManager.domainValidOrThrow(domainName) settles
domainValidOrThrow(a, valid) ==
    IF valid
    THEN [a EXCEPT !.pc = "write", !.log = Append(@, "valid")]
    ELSE [a EXCEPT !.pc = "done", !.log = Append(@, "valid"),
                   !.result = "CertbotError"]

\* fs.outputFile(path, randomUuid) settles
outputFile(a, written) ==
    IF written
    THEN [a EXCEPT !.pc = "delay", !.log = Append(@, "write")]
    ELSE [a EXCEPT !.pc = "done", !.log = Append(@, "write"),
                   !.result = "FsError"]

filesAfterOutputFile(a, written) ==
    IF written THEN [files EXCEPT ![confirmationPath(a)] = a.randomUuid]
    ELSE files

\* setTimeout(resolve, 1000) fires and the request is issued
settleDelay(a) ==
    [a EXCEPT !.pc = "get", !.log = Append(Append(@, "delay"), "get")]

\* the callback of request(url, ...) without the comparison with randomUuid
verifyRequestCallback_AnyBody(a, error, body) ==
    IF error \/ body = EmptyBody
    THEN [a EXCEPT !.pc = "done", !.error = error, !.body = body,
                   !.result = "VerificationFailed"]
    ELSE [a EXCEPT !.pc = "done", !.error = error, !.body = body,
                   !.result = "ok"]

\* the callback of request(url, ...)
verifyRequestCallback(a, error, body) ==
    IF error \/ body = EmptyBody \/ body # a.randomUuid
    THEN [a EXCEPT !.pc = "done", !.error = error, !.body = body,
                   !.result = "VerificationFailed"]
    ELSE [a EXCEPT !.pc = "done", !.error = error, !.body = body,
                   !.result = "ok"]

\* what a GET of the confirmation path can return: the proxy serves the file,
\* serves nothing, serves something else, or the transport fails
Responses(a) ==
    {<<FALSE, files[confirmationPath(a)]>>, <<FALSE, EmptyBody>>,
     <<FALSE, Garbage>>, <<TRUE, EmptyBody>>}

\* ------------------------------------------------------------------------
\* performHealthCheck: one closure per invocation that launches probes

Running == exitStatus = "running"

NoCycle ==
    [launched |-> FALSE,
     cTimer |-> FALSE, cReq |-> FALSE, cCalled |-> FALSE, cCalls |-> 0,
     nTimer |-> FALSE, nCalled |-> FALSE, nCalls |-> 0,
     att |-> NoAttempt,
     captainHealth |-> "unset", nginxHealth |-> "unset", decisions |-> 0]

\* checkNginxHealth without its setTimeout
launchedCycle_NoNginxTimeout(randomUuid) ==
    [NoCycle EXCEPT !.launched = TRUE, !.cTimer = TRUE, !.cReq = TRUE,
                    !.att = newAttempt("captain.root", "-healthcheck", randomUuid)]

\* checkCaptainHealth and checkNginxHealth have both run: two timeouts armed,
\* the request sent, the verification attempt started
launchedCycle(randomUuid) ==
    [NoCycle EXCEPT !.launched = TRUE,
                    !.cTimer = TRUE, !.cReq = TRUE, !.nTimer = TRUE,
                    !.att = newAttempt("captain.root", "-healthcheck", randomUuid)]

Undecided(k) == k.launched /\ k.decisions = 0

\* scheduleNextHealthCheck without the assignment of a new uuid
scheduleNextHealthCheck_SameUuid(pending) ==
    /\ UNCHANGED healthCheckUuid
    /\ hcPending' = pending + 1

\* function scheduleNextHealthCheck(), with `pending` timers armed before it
scheduleNextHealthCheck(pending) ==
    /\ healthCheckUuid' = uuidOfCycle
    /\ hcPending' = pending + 1

\* scheduleIfNecessary that exits at >= MAX_FAIL_ALLOWED
scheduleIfNecessary_ExitEarly(c, cyc) ==
    IF cyc[c].captainHealth = "unset" \/ cyc[c].nginxHealth = "unset"
    THEN /\ cycles' = cyc
         /\ UNCHANGED <<consecutiveHealthCheckFailCount, healthCheckUuid,
                        hcPending, exitStatus, failedInARow>>
    ELSE LET hasFailedCheck == \/ cyc[c].captainHealth = "fail"
                               \/ cyc[c].nginxHealth = "fail"
             count == IF hasFailedCheck
                      THEN consecutiveHealthCheckFailCount + 1
                      ELSE 0
         IN  /\ consecutiveHealthCheckFailCount' = count
             /\ cycles' = [cyc EXCEPT ![c].decisions = @ + 1]
             /\ failedInARow' = IF /\ cyc[c].captainHealth = "ok"
                                   /\ cyc[c].nginxHealth = "ok"
                                THEN 0 ELSE failedInARow + 1
             /\ scheduleNextHealthCheck(hcPending)
             /\ exitStatus' = IF count >= MAX_FAIL_ALLOWED
                              THEN "exit(1)" ELSE exitStatus

\* scheduleIfNecessary that returns early only when both slots are unset
scheduleIfNecessary_OneSlot(c, cyc) ==
    IF cyc[c].captainHealth = "unset" /\ cyc[c].nginxHealth = "unset"
    THEN /\ cycles' = cyc
         /\ UNCHANGED <<consecutiveHealthCheckFailCount, healthCheckUuid,
                        hcPending, exitStatus, failedInARow>>
    ELSE LET hasFailedCheck == \/ cyc[c].captainHealth # "ok"
                               \/ cyc[c].nginxHealth # "ok"
             count == IF hasFailedCheck
                      THEN consecutiveHealthCheckFailCount + 1
                      ELSE 0
         IN  /\ consecutiveHealthCheckFailCount' = count
             /\ cycles' = [cyc EXCEPT ![c].decisions = @ + 1]
             /\ failedInARow' = failedInARow
             /\ scheduleNextHealthCheck(hcPending)
             /\ exitStatus' = IF count > MAX_FAIL_ALLOWED
                              THEN "exit(1)" ELSE exitStatus

\* scheduleIfNecessary that calls process.exit before scheduleNextHealthCheck
scheduleIfNecessary_ExitFirst(c, cyc) ==
    IF cyc[c].captainHealth = "unset" \/ cyc[c].nginxHealth = "unset"
    THEN /\ cycles' = cyc
         /\ UNCHANGED <<consecutiveHealthCheckFailCount, healthCheckUuid,
                        hcPending, exitStatus, failedInARow>>
    ELSE LET hasFailedCheck == \/ cyc[c].captainHealth = "fail"
                               \/ cyc[c].nginxHealth = "fail"
             count == IF hasFailedCheck
                      THEN consecutiveHealthCheckFailCount + 1
                      ELSE 0
         IN  /\ consecutiveHealthCheckFailCount' = count
             /\ cycles' = [cyc EXCEPT ![c].decisions = @ + 1]
             /\ failedInARow' = IF /\ cyc[c].captainHealth = "ok"
                                   /\ cyc[c].nginxHealth = "ok"
                                THEN 0 ELSE failedInARow + 1
             /\ IF count > MAX_FAIL_ALLOWED
                THEN /\ exitStatus' = "exit(1)"
                     /\ UNCHANGED <<healthCheckUuid, hcPending>>
                ELSE /\ scheduleNextHealthCheck(hcPending)
                     /\ UNCHANGED exitStatus

\* function scheduleIfNecessary() of closure c, the closures being cyc
scheduleIfNecessary(c, cyc) ==
    IF cyc[c].captainHealth = "unset" \/ cyc[c].nginxHealth = "unset"
    THEN /\ cycles' = cyc
         /\ UNCHANGED <<consecutiveHealthCheckFailCount, healthCheckUuid,
                        hcPending, exitStatus, failedInARow>>
    ELSE LET hasFailedCheck == \/ cyc[c].captainHealth = "fail"
                               \/ cyc[c].nginxHealth = "fail"
             count == IF hasFailedCheck
                      THEN consecutiveHealthCheckFailCount + 1
                      ELSE 0
         IN  /\ consecutiveHealthCheckFailCount' = count
             /\ cycles' = [cyc EXCEPT ![c].decisions = @ + 1]
             /\ failedInARow' = IF /\ cyc[c].captainHealth = "ok"
                                   /\ cyc[c].nginxHealth = "ok"
                                THEN 0 ELSE failedInARow + 1
             /\ scheduleNextHealthCheck(hcPending)
             /\ exitStatus' = IF count > MAX_FAIL_ALLOWED
                              THEN "exit(1)" ELSE exitStatus

Health(success) == IF success THEN "ok" ELSE "fail"

\* the callback given to checkCaptainHealth
captainCallback(c, cyc, success) ==
    scheduleIfNecessary(c, [cyc EXCEPT ![c].captainHealth = Health(success),
                                       ![c].cCalls = @ + 1])

\* the callback given to checkNginxHealth
nginxCallback(c, cyc, success) ==
    scheduleIfNecessary(c, [cyc EXCEPT ![c].nginxHealth = Health(success),
                                       ![c].nCalls = @ + 1])

QuietHealth ==
    UNCHANGED <<consecutiveHealthCheckFailCount, healthCheckUuid, hcPending,
                exitStatus, failedInARow>>

\* a handler of checkCaptainHealth without the callbackCalled test
captainGuarded_NoGuard(c, cyc, success) ==
    captainCallback(c, [cyc EXCEPT ![c].cCalled = TRUE], success)

\* the guarded body of a timeout or result handler of checkCaptainHealth
captainGuarded(c, cyc, success) ==
    IF cyc[c].cCalled
    THEN cycles' = cyc /\ QuietHealth
    ELSE captainCallback(c, [cyc EXCEPT ![c].cCalled = TRUE], success)

\* a handler of checkNginxHealth without the callbackCalled test
nginxGuarded_NoGuard(c, cyc, success) ==
    nginxCallback(c, [cyc EXCEPT ![c].nCalled = TRUE], success)

\* the guarded body of a timeout or result handler of checkNginxHealth
nginxGuarded(c, cyc, success) ==
    IF cyc[c].nCalled
    THEN cycles' = cyc /\ QuietHealth
    ELSE nginxCallback(c, [cyc EXCEPT ![c].nCalled = TRUE], success)

\* Timers fire in the order of their deadlines: the probes' timeouts are armed
\* before the timer of the next invocation and last less long.
TimeoutsFired ==
    HEALTH_CHECK_INTERVAL > TIMEOUT_HEALTH_CHECK =>
        \A c \in Cycles : ~cycles[c].cTimer /\ ~cycles[c].nTimer

\* The closures after a launch, latest first.  A decided closure is garbage:
\* both callbackCalled flags are set, so its late response and the outcome of
\* its verification attempt are discarded and checksPerformed is never read
\* again.
launchedCycles(randomUuid) ==
    LET kept == SelectSeq(cycles, Undecided)
    IN  [c \in Cycles |->
            IF c = 1 THEN launchedCycle(randomUuid)
            ELSE IF c - 1 <= Len(kept) THEN kept[c - 1]
            ELSE NoCycle]

\* All a decided closure can still do to the state is write its confirmation
\* file: its attempt is kept while it has not written.  The attempts that do
\* not fit any more never get to write.
HasToWrite(k) == ~Undecided(k) /\ k.att.pc \in {"valid", "write"}
lateAfterLaunch ==
    LET moved == SelectSeq(cycles, HasToWrite)
        all == [i \in 1..Len(moved) |-> moved[i].att] \o late
    IN  SubSeq(all, 1, IF Len(all) < MaxLate THEN Len(all) ELSE MaxLate)

\* The names of the verification tokens carry no information.  After a launch
\* the tokens in the state are renamed in the order in which they are met
\* below, one and the same renaming everywhere, so that states that differ
\* only in the names of their tokens are one state.
tokenOrder(cyc, lat) ==
    [c \in Cycles |-> cyc[c].att.randomUuid]
    \o [i \in 1..Len(lat) |-> lat[i].randomUuid]
    \o [i \in AttemptIds |-> attempts[i].randomUuid]
    \o [i \in 1..Len(PathSeq) |-> files[PathSeq[i]]]
    \o [c \in Cycles |-> cyc[c].att.body]
    \o [i \in AttemptIds |-> attempts[i].body]

renamed(t, order) ==
    IF t \notin VerifyTokens THEN t
    ELSE LET first == CHOOSE j \in 1..Len(order) :
                          order[j] = t /\ \A k \in 1..(j - 1) : order[k] # t
         IN  3 + Cardinality({order[k] : k \in 1..first} \cap VerifyTokens)

renamedAttempt(a, order) ==
    [a EXCEPT !.randomUuid = renamed(@, order), !.body = renamed(@, order)]

\* the probes of a new cycle are launched: the closures, latest first
Launch ==
    LET cyc == launchedCycles(uuid)
        lat == lateAfterLaunch
        order == tokenOrder(cyc, lat)
    IN  /\ cycles' = [c \in Cycles |->
                        [cyc[c] EXCEPT !.att = renamedAttempt(@, order)]]
        /\ late' = [i \in 1..Len(lat) |-> renamedAttempt(lat[i], order)]
        /\ attempts' = [i \in AttemptIds |-> renamedAttempt(attempts[i], order)]
        /\ files' = [p \in Paths |-> renamed(files[p], order)]

\* performHealthCheck that skips the probes in a debug build only
PerformHealthCheck_DebugOnly ==
    /\ Running
    /\ hcPending > 0
    /\ TimeoutsFired
    /\ cycleUuid' = healthCheckUuid
    /\ IF isDebug
       THEN /\ scheduleNextHealthCheck(hcPending - 1)
            /\ UNCHANGED <<cycles, late, verifyVars>>
       ELSE /\ Cardinality({c \in Cycles : Undecided(cycles[c])}) < MaxCycles
            /\ Launch
            /\ hcPending' = hcPending - 1
            /\ UNCHANGED healthCheckUuid
    /\ UNCHANGED <<sysVars, sslVars, isDebug, hasCustomDomain, consecutiveHealthCheckFailCount,
                   exitStatus, failedInARow>>

\* performHealthCheck(), called by the timer of scheduleNextHealthCheck
PerformHealthCheck ==
    /\ Running
    /\ hcPending > 0
    /\ TimeoutsFired
    /\ cycleUuid' = healthCheckUuid
    /\ IF isDebug \/ ~hasCustomDomain
       THEN /\ scheduleNextHealthCheck(hcPending - 1)
            /\ UNCHANGED <<cycles, late, verifyVars>>
       ELSE /\ Cardinality({c \in Cycles : Undecided(cycles[c])}) < MaxCycles
            /\ Launch
            /\ hcPending' = hcPending - 1
            /\ UNCHANGED healthCheckUuid
    /\ UNCHANGED <<sysVars, sslVars, isDebug, hasCustomDomain, consecutiveHealthCheckFailCount,
                   exitStatus, failedInARow>>

\* the timeout of checkCaptainHealth fires
CaptainTimeout(c) ==
    /\ Running
    /\ cycles[c].cTimer
    /\ captainGuarded(c, [cycles EXCEPT ![c].cTimer = FALSE], FALSE)
    /\ UNCHANGED <<sysVars, sslVars, isDebug, hasCustomDomain, cycleUuid, late, verifyVars>>

\* a response handler that takes any non-empty body for the token
CaptainResponse_AnyBody(c, error, body) ==
    /\ Running
    /\ cycles[c].cReq
    /\ captainGuarded(c, [cycles EXCEPT ![c].cReq = FALSE],
                      ~(error \/ body = EmptyBody))
    /\ UNCHANGED <<sysVars, sslVars, isDebug, hasCustomDomain, cycleUuid, late, verifyVars>>

\* the response of the health endpoint arrives; the endpoint answers with
\* getHealthCheckUuid()
CaptainResponse(c, error, body) ==
    /\ Running
    /\ cycles[c].cReq
    /\ captainGuarded(c, [cycles EXCEPT ![c].cReq = FALSE],
                      ~(error \/ body = EmptyBody \/ body # healthCheckUuid))
    /\ UNCHANGED <<sysVars, sslVars, isDebug, hasCustomDomain, cycleUuid, late, verifyVars>>

\* the timeout of checkNginxHealth fires
NginxTimeout(c) ==
    /\ Running
    /\ cycles[c].nTimer
    /\ nginxGuarded(c, [cycles EXCEPT ![c].nTimer = FALSE], FALSE)
    /\ UNCHANGED <<sysVars, sslVars, isDebug, hasCustomDomain, cycleUuid, late, verifyVars>>

\* the attempt of closure c moves to a, which is not settled yet
nginxAttemptPending(c, a) ==
    /\ cycles' = [cycles EXCEPT ![c].att = a]
    /\ QuietHealth

\* the attempt of closure c settles as a: .then or .catch of checkNginxHealth
nginxAttemptSettled(c, a) ==
    nginxGuarded(c, [cycles EXCEPT ![c].att = a], a.result = "ok")

NginxAttemptStep(c, a) ==
    IF a.pc = "done" THEN nginxAttemptSettled(c, a)
    ELSE nginxAttemptPending(c, a)

NginxDomainValid(c, valid) ==
    /\ Running
    /\ cycles[c].att.pc = "valid"
    /\ NginxAttemptStep(c, domainValidOrThrow(cycles[c].att, valid))
    /\ UNCHANGED <<sysVars, sslVars, isDebug, hasCustomDomain, cycleUuid, late, verifyVars>>

NginxOutputFile(c, written) ==
    /\ Running
    /\ cycles[c].att.pc = "write"
    /\ NginxAttemptStep(c, outputFile(cycles[c].att, written))
    /\ files' = filesAfterOutputFile(cycles[c].att, written)
    /\ UNCHANGED <<sysVars, sslVars, isDebug, hasCustomDomain, cycleUuid, late, attempts>>

NginxSettleDelay(c) ==
    /\ Running
    /\ cycles[c].att.pc = "delay"
    /\ NginxAttemptStep(c, settleDelay(cycles[c].att))
    /\ UNCHANGED <<sysVars, sslVars, isDebug, hasCustomDomain, cycleUuid, late, verifyVars>>

NginxResponse(c, r) ==
    /\ Running
    /\ cycles[c].att.pc = "get"
    /\ NginxAttemptStep(c, verifyRequestCallback(cycles[c].att, r[1], r[2]))
    /\ UNCHANGED <<sysVars, sslVars, isDebug, hasCustomDomain, cycleUuid, late, verifyVars>>

Without(q, i) == SubSeq(q, 1, i - 1) \o SubSeq(q, i + 1, Len(q))

\* domainValidOrThrow settles for an attempt of an earlier cycle
LateDomainValid(i, valid) ==
    /\ Running
    /\ i \in 1..Len(late)
    /\ late[i].pc = "valid"
    /\ late' = IF valid THEN [late EXCEPT ![i] = domainValidOrThrow(@, TRUE)]
               ELSE Without(late, i)
    /\ UNCHANGED <<sysVars, sslVars, isDebug, hasCustomDomain, cycleUuid, cycles, verifyVars>>
    /\ QuietHealth

\* fs.outputFile settles for an attempt of an earlier cycle
LateOutputFile(i, written) ==
    /\ Running
    /\ i \in 1..Len(late)
    /\ late[i].pc = "write"
    /\ files' = filesAfterOutputFile(late[i], written)
    /\ late' = Without(late, i)
    /\ UNCHANGED <<sysVars, sslVars, isDebug, hasCustomDomain, cycleUuid, cycles, attempts>>
    /\ QuietHealth

\* dataStore.setCustomDomain, reached through changeCaptainRootDomain
CustomDomainSet ==
    /\ Running
    /\ ~hasCustomDomain
    /\ hasCustomDomain' = TRUE
    /\ UNCHANGED <<sysVars, sslVars, isDebug, consecutiveHealthCheckFailCount, healthCheckUuid,
                   cycleUuid, hcPending, exitStatus, cycles, late, failedInARow,
                   verifyVars>>

\* ------------------------------------------------------------------------
\* Root SSL operations: enableSsl, forceSsl, changeCaptainRootDomain.
\* A call is a promise chain; each of its callbacks is one action, which runs
\* when the promise before it settles and invokes the next collaborator.  A
\* dataStore setter takes effect, and a dataStore getter yields the stored
\* value, when it is invoked.

RootDomains == {"root", "other"}
Emails == {"admin@root"}

\* loadBalancerManager.getCaptainPublicRandomKey()
CaptainPublicRandomKey == 1

STATUS_ERROR_GENERIC_NoRootSsl ==
    "You first need to enable SSL on the root domain before forcing it."
STATUS_ERROR_GENERIC_TooLate ==
    "SSL is enabled for root. Too late to change your mind!"

\* the error a collaborator rejects with
ErrorOf(name) == <<"error", name>>

\* log: the collaborator calls the chain has made, in order;
\* hasRootSsl, hasForceSsl: the arguments of the callbacks of that name
NoCall ==
    [op |-> "none", pc |-> "idle", emailAddress |-> "", isEnabled |-> FALSE,
     domain |-> "", hasRootSsl |-> FALSE, hasForceSsl |-> FALSE,
     log |-> <<>>, result |-> <<"none">>]

FreeCall(i) ==
    /\ calls[i].pc = "idle"
    /\ \A j \in 1..(i - 1) : calls[j].pc # "idle"

\* the chain calls collaborator `name` from a callback
invoked(k, name) == [k EXCEPT !.log = Append(@, name), !.pc = name]

\* a chain that records a rejection and keeps running its callbacks
thenCall_KeepGoing(k, ok, name) ==
    [k EXCEPT !.log = Append(@, name), !.pc = name,
              !.result = IF ok THEN @ ELSE ErrorOf(k.pc)]

\* .then(callback): the pending collaborator call k.pc settles; the callback
\* runs and calls `name` if it fulfilled, and the chain rejects with its error
\* if it rejected
thenCall(k, ok, name) ==
    IF ok
    THEN invoked(k, name)
    ELSE [k EXCEPT !.pc = "done", !.result = ErrorOf(k.pc)]

\* the last collaborator call of a chain settles
settled(k, ok) ==
    [k EXCEPT !.pc = "done", !.result = IF ok THEN <<"ok">> ELSE ErrorOf(k.pc)]

rejected(k, error) == [k EXCEPT !.pc = "done", !.result = <<"error", error>>]

Pending(i, op, name) == calls[i].op = op /\ calls[i].pc = name

otherVars == <<isDebug, cycleUuid, consecutiveHealthCheckFailCount,
               healthCheckUuid, hcPending, exitStatus, cycles, late,
               failedInARow, verifyVars, sysVars>>

\* ---- enableSsl(emailAddress)
EnableSslCall(i, emailAddress) ==
    /\ FreeCall(i)
    /\ calls' = [calls EXCEPT ![i] =
            invoked([NoCall EXCEPT !.op = "enableSsl",
                                   !.emailAddress = emailAddress],
                    "ensureRegistered")]
    /\ UNCHANGED <<storedHasRootSsl, storedForceSsl, hasForceSsl, rootDomain,
                   userEmailAddress, hasCustomDomain, otherVars>>

EnableSslIssue(i, ok) ==
    /\ Pending(i, "enableSsl", "ensureRegistered")
    /\ calls' = [calls EXCEPT ![i] =
            [thenCall(@, ok, "certbot.enableSsl") EXCEPT
                !.domain = IF ok THEN rootDomain ELSE @]]
    /\ UNCHANGED <<storedHasRootSsl, storedForceSsl, hasForceSsl, rootDomain,
                   userEmailAddress, hasCustomDomain, otherVars>>

EnableSslPersistEmail(i, ok) ==
    /\ Pending(i, "enableSsl", "certbot.enableSsl")
    /\ calls' = [calls EXCEPT ![i] = thenCall(@, ok, "setUserEmailAddress")]
    /\ userEmailAddress' =
            IF calls'[i].pc = "setUserEmailAddress"
            THEN calls[i].emailAddress ELSE userEmailAddress
    /\ UNCHANGED <<storedHasRootSsl, storedForceSsl, hasForceSsl, rootDomain,
                   hasCustomDomain, otherVars>>

EnableSslSetFlag(i) ==
    /\ Pending(i, "enableSsl", "setUserEmailAddress")
    /\ calls' = [calls EXCEPT ![i] = thenCall(@, TRUE, "setHasRootSsl")]
    /\ storedHasRootSsl' =
            IF calls'[i].pc = "setHasRootSsl" THEN TRUE ELSE storedHasRootSsl
    /\ UNCHANGED <<storedForceSsl, hasForceSsl, rootDomain, userEmailAddress,
                   hasCustomDomain, otherVars>>

EnableSslRegenerate(i) ==
    /\ Pending(i, "enableSsl", "setHasRootSsl")
    /\ calls' = [calls EXCEPT ![i] =
            thenCall(@, TRUE, "rePopulateNginxConfigFile")]
    /\ UNCHANGED <<storedHasRootSsl, storedForceSsl, hasForceSsl, rootDomain,
                   userEmailAddress, hasCustomDomain, otherVars>>

EnableSslReload(i, ok) ==
    /\ Pending(i, "enableSsl", "rePopulateNginxConfigFile")
    /\ calls' = [calls EXCEPT ![i] = thenCall(@, ok, "sendReloadSignal")]
    /\ UNCHANGED <<storedHasRootSsl, storedForceSsl, hasForceSsl, rootDomain,
                   userEmailAddress, hasCustomDomain, otherVars>>

EnableSslSettled(i, ok) ==
    /\ Pending(i, "enableSsl", "sendReloadSignal")
    /\ calls' = [calls EXCEPT ![i] = settled(@, ok)]
    /\ UNCHANGED <<storedHasRootSsl, storedForceSsl, hasForceSsl, rootDomain,
                   userEmailAddress, hasCustomDomain, otherVars>>

\* ---- forceSsl(isEnabled)
ForceSslCall(i, isEnabled) ==
    /\ FreeCall(i)
    /\ calls' = [calls EXCEPT ![i] =
            invoked([NoCall EXCEPT !.op = "forceSsl",
                                   !.isEnabled = isEnabled,
                                   !.hasRootSsl = storedHasRootSsl],
                    "getHasRootSsl")]
    /\ UNCHANGED <<storedHasRootSsl, storedForceSsl, hasForceSsl, rootDomain,
                   userEmailAddress, hasCustomDomain, otherVars>>

\* a forceSsl that persists the flag whatever getHasRootSsl yielded
ForceSslCheck_NotChecked(i) ==
    /\ Pending(i, "forceSsl", "getHasRootSsl")
    /\ calls' = [calls EXCEPT ![i] = invoked(@, "setForceSsl")]
    /\ storedForceSsl' = calls[i].isEnabled
    /\ UNCHANGED <<storedHasRootSsl, hasForceSsl, rootDomain,
                   userEmailAddress, hasCustomDomain, otherVars>>

ForceSslCheck(i) ==
    /\ Pending(i, "forceSsl", "getHasRootSsl")
    /\ IF ~calls[i].hasRootSsl
       THEN /\ calls' = [calls EXCEPT ![i] =
                    rejected(@, STATUS_ERROR_GENERIC_NoRootSsl)]
            /\ UNCHANGED storedForceSsl
       ELSE /\ calls' = [calls EXCEPT ![i] = invoked(@, "setForceSsl")]
            /\ storedForceSsl' = calls[i].isEnabled
    /\ UNCHANGED <<storedHasRootSsl, hasForceSsl, rootDomain,
                   userEmailAddress, hasCustomDomain, otherVars>>

\* refreshForceSslState(), first callback
ForceSslRefresh(i) ==
    /\ Pending(i, "forceSsl", "setForceSsl")
    /\ calls' = [calls EXCEPT ![i] =
            [invoked(@, "getForceSsl") EXCEPT !.hasForceSsl = storedForceSsl]]
    /\ UNCHANGED <<storedHasRootSsl, storedForceSsl, hasForceSsl, rootDomain,
                   userEmailAddress, hasCustomDomain, otherVars>>

\* refreshForceSslState(), second callback
ForceSslAssign(i) ==
    /\ Pending(i, "forceSsl", "getForceSsl")
    /\ hasForceSsl' = calls[i].hasForceSsl
    /\ calls' = [calls EXCEPT ![i] = settled(@, TRUE)]
    /\ UNCHANGED <<storedHasRootSsl, storedForceSsl, rootDomain,
                   userEmailAddress, hasCustomDomain, otherVars>>

getForceSslValue == hasForceSsl

\* ---- changeCaptainRootDomain(requestedCustomDomain)
verifyDomainResolvesToDefaultServerOnHost(error, body) ==
    ~(error \/ body = EmptyBody \/ body # CaptainPublicRandomKey)

ChangeRootDomainCall(i, requestedCustomDomain) ==
    /\ FreeCall(i)
    /\ calls' = [calls EXCEPT ![i] =
            invoked([NoCall EXCEPT !.op = "changeCaptainRootDomain",
                                   !.domain = requestedCustomDomain],
                    "verifyDomainResolvesToDefaultServerOnHost")]
    /\ UNCHANGED <<storedHasRootSsl, storedForceSsl, hasForceSsl, rootDomain,
                   userEmailAddress, hasCustomDomain, otherVars>>

ChangeRootDomainVerified(i, error, body) ==
    /\ Pending(i, "changeCaptainRootDomain",
               "verifyDomainResolvesToDefaultServerOnHost")
    /\ calls' = [calls EXCEPT ![i] =
            IF verifyDomainResolvesToDefaultServerOnHost(error, body)
            THEN [invoked(@, "getHasRootSsl") EXCEPT
                    !.hasRootSsl = storedHasRootSsl]
            ELSE rejected(@, "VERIFICATION_FAILED")]
    /\ UNCHANGED <<storedHasRootSsl, storedForceSsl, hasForceSsl, rootDomain,
                   userEmailAddress, hasCustomDomain, otherVars>>

\* a changeCaptainRootDomain without the root-SSL rule
ChangeRootDomainCheck_NoRule(i) ==
    /\ Pending(i, "changeCaptainRootDomain", "getHasRootSsl")
    /\ calls' = [calls EXCEPT ![i] = invoked(@, "setCustomDomain")]
    /\ rootDomain' = calls[i].domain
    /\ hasCustomDomain' = TRUE
    /\ UNCHANGED <<storedHasRootSsl, storedForceSsl, hasForceSsl,
                   userEmailAddress, otherVars>>

ChangeRootDomainCheck(i) ==
    /\ Pending(i, "changeCaptainRootDomain", "getHasRootSsl")
    /\ IF calls[i].hasRootSsl /\ rootDomain # calls[i].domain
       THEN /\ calls' = [calls EXCEPT ![i] =
                    rejected(@, STATUS_ERROR_GENERIC_TooLate)]
            /\ UNCHANGED <<rootDomain, hasCustomDomain>>
       ELSE /\ calls' = [calls EXCEPT ![i] = invoked(@, "setCustomDomain")]
            /\ rootDomain' = calls[i].domain
            /\ hasCustomDomain' = TRUE
    /\ UNCHANGED <<storedHasRootSsl, storedForceSsl, hasForceSsl,
                   userEmailAddress, otherVars>>

\* reloadLoadBalancer()
ChangeRootDomainRegenerate(i) ==
    /\ Pending(i, "changeCaptainRootDomain", "setCustomDomain")
    /\ calls' = [calls EXCEPT ![i] =
            thenCall(@, TRUE, "rePopulateNginxConfigFile")]
    /\ UNCHANGED <<storedHasRootSsl, storedForceSsl, hasForceSsl, rootDomain,
                   userEmailAddress, hasCustomDomain, otherVars>>

ChangeRootDomainReload(i, ok) ==
    /\ Pending(i, "changeCaptainRootDomain", "rePopulateNginxConfigFile")
    /\ calls' = [calls EXCEPT ![i] = thenCall(@, ok, "sendReloadSignal")]
    /\ UNCHANGED <<storedHasRootSsl, storedForceSsl, hasForceSsl, rootDomain,
                   userEmailAddress, hasCustomDomain, otherVars>>

ChangeRootDomainSettled(i, ok) ==
    /\ Pending(i, "changeCaptainRootDomain", "sendReloadSignal")
    /\ calls' = [calls EXCEPT ![i] = settled(@, ok)]
    /\ UNCHANGED <<storedHasRootSsl, storedForceSsl, hasForceSsl, rootDomain,
                   userEmailAddress, hasCustomDomain, otherVars>>

\* ------------------------------------------------------------------------
\* getAuthenticator: the static cache of Authenticator instances.  An
\* instance is identified by its rank among the instances constructed.

Namespaces == {"", "captain", "other"}
\* CaptainConstants.rootNameSpace, dataStore.getNameSpace()
rootNameSpace == "captain"
\* authenticatorCache[namespace] of a namespace that has no entry
NoAuthenticator == 0
Salts == {"salt"}

getCaptainSalt ==
    IF captainSalt = ""
    THEN <<"throw", "Captain Salt is not set yet!!">>
    ELSE <<"return", captainSalt>>

\* the call has returned `value`, or has thrown
returned(namespace, value) ==
    [namespace |-> namespace, outcome |-> "return", value |-> value]
threw(namespace, error) ==
    [namespace |-> namespace, outcome |-> error, value |-> NoAuthenticator]

\* a getAuthenticator that constructs an instance at every call
getAuthenticator_NoCache(namespace) ==
    IF namespace = ""
    THEN /\ authReturn' = threw(namespace, "STATUS_ERROR_NOT_AUTHORIZED")
         /\ UNCHANGED <<authenticatorCache, authenticators>>
    ELSE IF getCaptainSalt[1] = "throw"
    THEN /\ authReturn' = threw(namespace, getCaptainSalt[2])
         /\ UNCHANGED <<authenticatorCache, authenticators>>
    ELSE /\ authenticators' = Append(authenticators,
                [captainSalt |-> getCaptainSalt[2], namespace |-> namespace])
         /\ authenticatorCache' = [authenticatorCache EXCEPT
                ![namespace] = Len(authenticators')]
         /\ authReturn' = returned(namespace, Len(authenticators'))

\* static getAuthenticator(namespace)
getAuthenticator(namespace) ==
    IF namespace = ""
    THEN /\ authReturn' = threw(namespace, "STATUS_ERROR_NOT_AUTHORIZED")
         /\ UNCHANGED <<authenticatorCache, authenticators>>
    ELSE IF authenticatorCache[namespace] # NoAuthenticator
    THEN /\ authReturn' = returned(namespace, authenticatorCache[namespace])
         /\ UNCHANGED <<authenticatorCache, authenticators>>
    ELSE IF getCaptainSalt[1] = "throw"
    THEN /\ authReturn' = threw(namespace, getCaptainSalt[2])
         /\ UNCHANGED <<authenticatorCache, authenticators>>
    ELSE IF getCaptainSalt[2] # ""
    THEN /\ authenticators' = Append(authenticators,
                [captainSalt |-> getCaptainSalt[2], namespace |-> namespace])
         /\ authenticatorCache' = [authenticatorCache EXCEPT
                ![namespace] = Len(authenticators')]
         /\ authReturn' = returned(namespace, Len(authenticators'))
    ELSE /\ authReturn' = returned(namespace, NoAuthenticator)
         /\ UNCHANGED <<authenticatorCache, authenticators>>

\* a caller other than initialize calls getAuthenticator
GetAuthenticator(namespace) ==
    /\ Len(authenticators) < MaxAuthenticators
    /\ getAuthenticator(namespace)
    /\ UNCHANGED <<bootVars, joinVars, configVars, sslVars, healthVars,
                   verifyVars>>

\* ------------------------------------------------------------------------
\* initialize(): one promise chain.  log holds the steps begun, resolved the
\* steps whose promise has fulfilled, in order.

NodeIds == {"node1"}

BootOrder ==
    <<"refreshForceSslState", "getNodeIdByServiceName", "isNodeManager",
      "emptyDir(captainRootDirectoryTemp)",
      "emptyDir(captainRootDirectoryGenerated)",
      "ensureDir(letsEncryptEtcPath)", "ensureDir(letsEncryptLibPath)",
      "ensureDir(captainStaticFilesDir)",
      "ensureDir(perAppNginxConfigPathBase)",
      "ensureFile(baseNginxConfigPath)", "ensureDir(registryPathOnHost)",
      "ensureOverlayNetwork", "ensureServiceConnectedToNetwork",
      "ensureSecret", "ensureSecretOnService", "readSecretFile",
      "setEncryptionSalt", "loadBalancerManager.init", "migrateIfNeeded",
      "certbotManager.init", "getAllRegistries",
      "ensureDockerRegistryRunningOnThisNode">>

\* the steps whose callback does nothing but begin the step after them
PlainSteps ==
    {BootOrder[n] : n \in 4..14} \cup {"setEncryptionSalt", "certbotManager.init"}

StepAfter(name) ==
    BootOrder[1 + CHOOSE n \in 1..Len(BootOrder) : BootOrder[n] = name]

NoBoot ==
    [pc |-> "idle", log |-> <<>>, resolved |-> <<>>,
     secretHadExistedBefore |-> "unknown", result |-> <<"none">>]

\* the promise of the pending step has fulfilled
fulfilled(k) == [k EXCEPT !.resolved = Append(@, k.pc)]

\* .catch(): the chain has rejected with `error`
caught(k, error) == [k EXCEPT !.pc = "failed", !.result = error]

\* a chain whose callbacks run whether the promise before them fulfilled or not
initThen_KeepGoing(k, ok, name) ==
    [invoked(k, name) EXCEPT !.result = IF ok THEN @ ELSE ErrorOf(k.pc)]

\* .then(callback) of initialize: the pending step settles; the callback
\* begins step `name` if it fulfilled, else the chain rejects
initThen(k, ok, name) ==
    IF ok THEN invoked(fulfilled(k), name) ELSE caught(k, ErrorOf(k.pc))

\* the last callback: inited = true
ready(k) == [fulfilled(k) EXCEPT !.pc = "done", !.result = <<"ok">>]

\* the catch handler arms the timer of process.exit(0)
exitTimerAfter(k) == IF k.pc = "failed" THEN TRUE ELSE exitTimer

bootRest == <<authVars, joinVars, configVars, storedHasRootSsl, storedForceSsl,
              rootDomain, userEmailAddress, calls, isDebug, hasCustomDomain,
              cycleUuid, consecutiveHealthCheckFailCount, healthCheckUuid,
              cycles, late, failedInARow, verifyVars>>

Initialize ==
    /\ boot.pc = "idle"
    /\ boot' = invoked(boot, "refreshForceSslState")
    /\ UNCHANGED <<inited, myNodeId, captainSalt, exitTimer, hasForceSsl,
                   hcPending, exitStatus, bootRest>>

InitializeRefreshed(ok) ==
    /\ boot.pc = "refreshForceSslState"
    /\ boot' = initThen(boot, ok, "getNodeIdByServiceName")
    /\ hasForceSsl' = IF ok THEN storedForceSsl ELSE hasForceSsl
    /\ exitTimer' = exitTimerAfter(boot')
    /\ UNCHANGED <<inited, myNodeId, captainSalt, hcPending, exitStatus,
                   bootRest>>

InitializeNodeId(ok, nodeId) ==
    /\ boot.pc = "getNodeIdByServiceName"
    /\ boot' = initThen(boot, ok, "isNodeManager")
    /\ myNodeId' = IF ok THEN nodeId ELSE myNodeId
    /\ exitTimer' = exitTimerAfter(boot')
    /\ UNCHANGED <<inited, captainSalt, hasForceSsl, hcPending, exitStatus,
                   bootRest>>

InitializeIsManager(ok, isManager) ==
    /\ boot.pc = "isNodeManager"
    /\ boot' = IF ok /\ ~isManager
               THEN caught(fulfilled(boot),
                        <<"error", "Captain should only run on a manager node">>)
               ELSE initThen(boot, ok, "emptyDir(captainRootDirectoryTemp)")
    /\ exitTimer' = exitTimerAfter(boot')
    /\ UNCHANGED <<inited, myNodeId, captainSalt, hasForceSsl, hcPending,
                   exitStatus, bootRest>>

InitializeThen(ok) ==
    /\ boot.pc \in PlainSteps
    /\ boot' = initThen(boot, ok, StepAfter(boot.pc))
    /\ exitTimer' = exitTimerAfter(boot')
    /\ UNCHANGED <<inited, myNodeId, captainSalt, hasForceSsl, hcPending,
                   exitStatus, bootRest>>

\* fs.pathExistsSync and fs.readFileSync of the secret file
SecretFiles == {"no file", ""} \cup Salts

\* an initialize that goes on to read the secret whether or not it had existed
InitializeSecretAttached_NoHalt(ok, secretHadExistedBefore, secretContent) ==
    /\ boot.pc = "ensureSecretOnService"
    /\ LET k == [initThen(boot, ok, "readSecretFile") EXCEPT
                    !.secretHadExistedBefore =
                        IF ~ok THEN @
                        ELSE IF secretHadExistedBefore THEN "yes" ELSE "no"]
       IN  IF ~ok
           THEN boot' = k /\ UNCHANGED captainSalt
           ELSE IF secretContent = "no file"
           THEN /\ boot' = caught(k, <<"error", "Secret is attached according to Docker. But file cannot be found. ">>)
                /\ UNCHANGED captainSalt
           ELSE IF secretContent = ""
           THEN /\ boot' = caught(k, <<"error", "Salt secret content is empty!">>)
                /\ UNCHANGED captainSalt
           ELSE /\ boot' = initThen(k, TRUE, "setEncryptionSalt")
                /\ captainSalt' = secretContent
    /\ exitTimer' = exitTimerAfter(boot')
    /\ UNCHANGED <<inited, myNodeId, hasForceSsl, hcPending, exitStatus,
                   bootRest>>

\* the callbacks of lines 160-192: halt, or read the secret and begin
\* setEncryptionSalt
InitializeSecretAttached(ok, secretHadExistedBefore, secretContent) ==
    /\ boot.pc = "ensureSecretOnService"
    /\ LET k == [initThen(boot, ok, "readSecretFile") EXCEPT
                    !.secretHadExistedBefore =
                        IF ~ok THEN @
                        ELSE IF secretHadExistedBefore THEN "yes" ELSE "no"]
       IN  IF ~ok
           THEN boot' = k /\ UNCHANGED captainSalt
           ELSE IF ~secretHadExistedBefore
           THEN /\ boot' = [fulfilled(boot) EXCEPT
                               !.pc = "halted", !.secretHadExistedBefore = "no"]
                /\ UNCHANGED captainSalt
           ELSE IF secretContent = "no file"
           THEN /\ boot' = caught(k, <<"error", "Secret is attached according to Docker. But file cannot be found. ">>)
                /\ UNCHANGED captainSalt
           ELSE IF secretContent = ""
           THEN /\ boot' = caught(k, <<"error", "Salt secret content is empty!">>)
                /\ UNCHANGED captainSalt
           ELSE /\ boot' = initThen(k, TRUE, "setEncryptionSalt")
                /\ captainSalt' = secretContent
    /\ exitTimer' = exitTimerAfter(boot')
    /\ UNCHANGED <<inited, myNodeId, hasForceSsl, hcPending, exitStatus,
                   bootRest>>

bootRestNoAuth == <<joinVars, configVars, storedHasRootSsl, storedForceSsl,
                    rootDomain, userEmailAddress, calls, isDebug,
                    hasCustomDomain, cycleUuid,
                    consecutiveHealthCheckFailCount, healthCheckUuid,
                    cycles, late, failedInARow, verifyVars>>

\* the callback of lines 196-201: getAuthenticator, then migrateIfNeeded
InitializeMigrate(ok) ==
    /\ boot.pc = "loadBalancerManager.init"
    /\ IF ok
       THEN /\ getAuthenticator(rootNameSpace)
            /\ boot' = IF authReturn'.outcome = "return"
                       THEN initThen(boot, TRUE, "migrateIfNeeded")
                       ELSE caught(fulfilled(boot),
                                   <<"error", authReturn'.outcome>>)
       ELSE /\ boot' = initThen(boot, FALSE, "migrateIfNeeded")
            /\ UNCHANGED authVars
    /\ exitTimer' = exitTimerAfter(boot')
    /\ UNCHANGED <<inited, myNodeId, captainSalt, hasForceSsl, hcPending,
                   exitStatus, bootRestNoAuth>>

\* a callback that calls resetSelf() without returning its promise
InitializeMigrated_NotAwaited(ok, migrationPerformed) ==
    /\ boot.pc = "migrateIfNeeded"
    /\ boot' = IF ok /\ migrationPerformed
               THEN invoked(invoked(fulfilled(boot), "resetSelf"),
                            "certbotManager.init")
               ELSE initThen(boot, ok, "certbotManager.init")
    /\ exitTimer' = exitTimerAfter(boot')
    /\ UNCHANGED <<inited, myNodeId, captainSalt, hasForceSsl, hcPending,
                   exitStatus, bootRest>>

\* the callback of lines 202-210: resetSelf() never settles
InitializeMigrated(ok, migrationPerformed) ==
    /\ boot.pc = "migrateIfNeeded"
    /\ boot' = initThen(boot, ok, IF migrationPerformed THEN "resetSelf"
                                  ELSE "certbotManager.init")
    /\ exitTimer' = exitTimerAfter(boot')
    /\ UNCHANGED <<inited, myNodeId, captainSalt, hasForceSsl, hcPending,
                   exitStatus, bootRest>>

\* the timer of resetSelf: dockerApi.updateService of the captain service
ResetSelfUpdateService ==
    /\ boot.pc = "resetSelf"
    /\ boot' = invoked(boot, "updateService")
    /\ UNCHANGED <<inited, myNodeId, captainSalt, exitTimer, hasForceSsl,
                   hcPending, exitStatus, bootRest>>

\* the callbacks of lines 214-241
InitializeRegistries(ok, hasLocalRegistry) ==
    /\ boot.pc = "getAllRegistries"
    /\ boot' = IF ok /\ ~hasLocalRegistry
               THEN ready(boot)
               ELSE initThen(boot, ok, "ensureDockerRegistryRunningOnThisNode")
    /\ inited' = (boot'.pc = "done")
    /\ hcPending' = IF boot'.pc = "done" THEN hcPending + 1 ELSE hcPending
    /\ exitTimer' = exitTimerAfter(boot')
    /\ UNCHANGED <<myNodeId, captainSalt, hasForceSsl, exitStatus, bootRest>>

\* the callback of lines 233-241
InitializeReady(ok) ==
    /\ boot.pc = "ensureDockerRegistryRunningOnThisNode"
    /\ boot' = IF ok THEN ready(boot) ELSE caught(boot, ErrorOf(boot.pc))
    /\ inited' = (boot'.pc = "done")
    /\ hcPending' = IF boot'.pc = "done" THEN hcPending + 1 ELSE hcPending
    /\ exitTimer' = exitTimerAfter(boot')
    /\ UNCHANGED <<myNodeId, captainSalt, hasForceSsl, exitStatus, bootRest>>

\* an exit timer that ends the process with status 1
ExitTimer_Status1 ==
    /\ exitTimer
    /\ Running
    /\ exitTimer' = FALSE
    /\ exitStatus' = "exit(1)"
    /\ UNCHANGED <<inited, myNodeId, captainSalt, boot, hasForceSsl,
                   hcPending, bootRest>>

\* the timer of the catch handler fires: process.exit(0)
ExitTimer ==
    /\ exitTimer
    /\ Running
    /\ exitTimer' = FALSE
    /\ exitStatus' = "exit(0)"
    /\ UNCHANGED <<inited, myNodeId, captainSalt, boot, hasForceSsl,
                   hcPending, bootRest>>

\* the state the constructor leaves
InitConstructed ==
    /\ inited = FALSE
    /\ myNodeId = ""
    /\ captainSalt = ""
    /\ boot = NoBoot
    /\ exitTimer = FALSE
    /\ authenticatorCache = [ns \in Namespaces |-> NoAuthenticator]
    /\ authenticators = <<>>
    /\ authReturn = [namespace |-> "", outcome |-> "none",
                     value |-> NoAuthenticator]

\* initialize() has refreshed the force-SSL mirror
InitRefreshed ==
    /\ inited = FALSE
    /\ myNodeId = ""
    /\ captainSalt = ""
    /\ boot = invoked(fulfilled(invoked(NoBoot, "refreshForceSslState")),
                      "getNodeIdByServiceName")
    /\ exitTimer = FALSE
    /\ authenticatorCache = [ns \in Namespaces |-> NoAuthenticator]
    /\ authenticators = <<>>
    /\ authReturn = [namespace |-> "", outcome |-> "none",
                     value |-> NoAuthenticator]

\* initialize() has run to its last callback, with no local registry
InitBooted ==
    /\ inited = TRUE
    /\ myNodeId = "node1"
    /\ captainSalt = "salt"
    /\ boot = [pc |-> "done",
               log |-> SubSeq(BootOrder, 1, Len(BootOrder) - 1),
               resolved |-> SubSeq(BootOrder, 1, Len(BootOrder) - 1),
               secretHadExistedBefore |-> "yes", result |-> <<"ok">>]
    /\ exitTimer = FALSE
    /\ authenticatorCache =
            [ns \in Namespaces |-> IF ns = rootNameSpace THEN 1
                                   ELSE NoAuthenticator]
    /\ authenticators =
            <<[captainSalt |-> "salt", namespace |-> rootNameSpace]>>
    /\ authReturn = returned(rootNameSpace, 1)

\* ------------------------------------------------------------------------
\* joinDockerNode: a call, its SSH connection and the stream of the command.
\* ended: conn.end() has been called; calls: the resolve() and reject() calls
\* made by the handlers of the stream; first, text: the first of the close
\* and stderr events and the text it carried.

StderrTexts == {"warning", "fatal"}

NoJoin ==
    [pc |-> "idle", result |-> <<"pending">>, hasExisted |-> FALSE,
     ready |-> FALSE, ended |-> FALSE, calls |-> 0, first |-> "none",
     text |-> "", stderrs |-> 0, errors |-> 0]

\* resolve() or reject() of the promise: only the first one counts
settle(j, outcome) ==
    IF j.result = <<"pending">> THEN [j EXCEPT !.result = outcome] ELSE j

SshConnectionError == <<"error", "SSH Connection error!!">>
SshCommandError == <<"error", "SSH Running command failed!!">>
SetupError(data) == <<"error", "Error during setup: " \o data>>

sawFirst(j, event, data) ==
    IF j.first = "none" THEN [j EXCEPT !.first = event, !.text = data] ELSE j

\* stream.on('close')
streamClose(j) ==
    LET e == [sawFirst(j, "close", "") EXCEPT !.ended = TRUE, !.pc = "closed"]
    IN  IF e.hasExisted
        THEN e
        ELSE [settle(e, <<"ok">>) EXCEPT !.hasExisted = TRUE, !.calls = @ + 1]

\* a stderr handler without the hasExisted test
stderrData_NoGuard(j, data) ==
    LET e == [sawFirst(j, "stderr", data) EXCEPT !.stderrs = @ + 1]
    IN  [settle(e, SetupError(data)) EXCEPT !.hasExisted = TRUE,
                                            !.calls = @ + 1]

\* stream.stderr.on('data')
stderrData(j, data) ==
    LET e == [sawFirst(j, "stderr", data) EXCEPT !.stderrs = @ + 1]
    IN  IF e.hasExisted
        THEN e
        ELSE [settle(e, SetupError(data)) EXCEPT !.hasExisted = TRUE,
                                                 !.calls = @ + 1]

joinRest == <<bootVars, authVars, configVars, sslVars, healthVars, verifyVars>>

JoinDockerNode(i) ==
    /\ join[i].pc = "idle"
    /\ \A j \in 1..(i - 1) : join[j].pc # "idle"
    /\ join' = [join EXCEPT ![i].pc = "getJoinToken"]
    /\ UNCHANGED joinRest

\* the callback of lines 646-725: the connection is opened
JoinConnect(i, ok) ==
    /\ join[i].pc = "getJoinToken"
    /\ join' = [join EXCEPT ![i] =
            IF ok THEN [@ EXCEPT !.pc = "connecting"]
            ELSE [settle(@, ErrorOf("getJoinToken")) EXCEPT !.pc = "done"]]
    /\ UNCHANGED joinRest

\* conn.on('error')
JoinConnError(i) ==
    /\ join[i].pc \in {"connecting", "exec", "execFailed", "streaming", "closed"}
    /\ join[i].errors < MaxConnErrors
    /\ join' = [join EXCEPT ![i] =
            [settle(@, SshConnectionError) EXCEPT
                !.errors = @ + 1,
                !.pc = IF @ = "connecting" THEN "done" ELSE @]]
    /\ UNCHANGED joinRest

\* conn.on('ready'): conn.exec is called
JoinReady(i) ==
    /\ join[i].pc = "connecting"
    /\ join' = [join EXCEPT ![i].pc = "exec", ![i].ready = TRUE]
    /\ UNCHANGED joinRest

\* the callback of conn.exec
JoinExec(i, err) ==
    /\ join[i].pc = "exec"
    /\ join' = [join EXCEPT ![i] =
            IF err
            THEN [settle(@, SshCommandError) EXCEPT !.pc = "execFailed"]
            ELSE [@ EXCEPT !.pc = "streaming"]]
    /\ UNCHANGED joinRest

JoinStreamClose(i) ==
    /\ join[i].pc = "streaming"
    /\ join' = [join EXCEPT ![i] = streamClose(@)]
    /\ UNCHANGED joinRest

JoinStderr(i, data) ==
    /\ join[i].pc \in {"streaming", "closed"}
    /\ join[i].stderrs < MaxStderr
    /\ join' = [join EXCEPT ![i] = stderrData(@, data)]
    /\ UNCHANGED joinRest

InitNoJoin == join = [i \in JoinIds |-> NoJoin]

\* ------------------------------------------------------------------------
\* setNginxConfig and the self-reset it triggers.  timer: the timer of
\* resetSelf is armed; update, args: the updateService request of that timer
\* and the arguments it was given after the service name.

NginxConfigs == {"default", "custom"}

NoConfigCall ==
    [pc |-> "idle", baseConfig |-> "", captainConfig |-> "",
     result |-> <<"none">>, timer |-> FALSE, update |-> "none", args |-> <<>>]

\* the arguments of dockerApi.updateService after captainServiceName
updateServiceArgs == [n \in 1..13 |-> "undefined"]

\* resetSelf(): the timer is armed; the promise returned never settles
resetSelf(k) == [k EXCEPT !.timer = TRUE]

configRest == <<bootVars, authVars, joinVars, sslVars, healthVars, verifyVars>>

\* setNginxConfig(baseConfig, captainConfig): dataStore.setNginxConfig is called
SetNginxConfigCall(i, baseConfig, captainConfig) ==
    /\ configCalls[i].pc = "idle"
    /\ \A j \in 1..(i - 1) : configCalls[j].pc # "idle"
    /\ configCalls' = [configCalls EXCEPT ![i] =
            [NoConfigCall EXCEPT !.pc = "setNginxConfig",
                                 !.baseConfig = baseConfig,
                                 !.captainConfig = captainConfig]]
    /\ UNCHANGED <<nginxConfig, configRest>>

\* a callback that returns the promise of resetSelf()
SetNginxConfigPersisted_Awaited(i, ok) ==
    /\ configCalls[i].pc = "setNginxConfig"
    /\ configCalls' = [configCalls EXCEPT ![i] =
            IF ok THEN [resetSelf(@) EXCEPT !.pc = "resetSelf"]
            ELSE [@ EXCEPT !.pc = "done", !.result = ErrorOf("setNginxConfig")]]
    /\ nginxConfig' = IF ok THEN <<configCalls[i].baseConfig,
                                   configCalls[i].captainConfig>>
                      ELSE nginxConfig
    /\ UNCHANGED configRest

\* dataStore.setNginxConfig settles; the callback calls resetSelf() and
\* returns nothing, so the promise of setNginxConfig fulfils
SetNginxConfigPersisted(i, ok) ==
    /\ configCalls[i].pc = "setNginxConfig"
    /\ configCalls' = [configCalls EXCEPT ![i] =
            IF ok THEN [resetSelf(@) EXCEPT !.pc = "done", !.result = <<"ok">>]
            ELSE [@ EXCEPT !.pc = "done", !.result = ErrorOf("setNginxConfig")]]
    /\ nginxConfig' = IF ok THEN <<configCalls[i].baseConfig,
                                   configCalls[i].captainConfig>>
                      ELSE nginxConfig
    /\ UNCHANGED configRest

\* the timer of resetSelf fires: dockerApi.updateService is called
ResetSelfTimer(i) ==
    /\ configCalls[i].timer
    /\ configCalls' = [configCalls EXCEPT ![i].timer = FALSE,
                                          ![i].update = "pending",
                                          ![i].args = updateServiceArgs]
    /\ UNCHANGED <<nginxConfig, configRest>>

\* promiseToIgnore settles
UpdateServiceSettled(i, ok) ==
    /\ configCalls[i].update = "pending"
    /\ configCalls' = [configCalls EXCEPT
            ![i].update = IF ok THEN "ok" ELSE "failed"]
    /\ UNCHANGED <<nginxConfig, configRest>>

InitNoConfigCall ==
    /\ nginxConfig = <<"default", "default">>
    /\ configCalls = [i \in ConfigCallIds |-> NoConfigCall]

\* no SSL operation has been called; the force-SSL mirror is the one the
\* constructor sets
InitSslIdle ==
    /\ storedHasRootSsl = FALSE
    /\ storedForceSsl = FALSE
    /\ hasForceSsl = FALSE
    /\ rootDomain = "root"
    /\ userEmailAddress = ""
    /\ calls = [i \in CallIds |-> NoCall]

InitVerify ==
    /\ files = [p \in Paths |-> EmptyBody]
    /\ attempts = [i \in AttemptIds |-> NoAttempt]

\* the constructor has run and initialize() is about to call performHealthCheck
InitHealth ==
    /\ isDebug \in BOOLEAN
    /\ hasCustomDomain \in BOOLEAN
    /\ consecutiveHealthCheckFailCount = 0
    /\ healthCheckUuid = 1
    /\ cycleUuid = 0
    /\ hcPending = 1
    /\ exitStatus = "running"
    /\ cycles = [c \in Cycles |-> NoCycle]
    /\ late = <<>>
    /\ failedInARow = 0

HealthInit ==
    InitHealth /\ InitVerify /\ InitSslIdle /\ InitBooted /\ InitNoJoin /\ InitNoConfigCall

HealthNext ==
    \/ PerformHealthCheck
    \/ CustomDomainSet
    \/ \E c \in Cycles : CaptainTimeout(c)
    \/ \E c \in Cycles, error \in BOOLEAN,
          body \in {healthCheckUuid, EmptyBody, Garbage} :
            CaptainResponse(c, error, body)
    \/ \E c \in Cycles : NginxTimeout(c)
    \/ \E c \in Cycles, valid \in BOOLEAN : NginxDomainValid(c, valid)
    \/ \E c \in Cycles, written \in BOOLEAN : NginxOutputFile(c, written)
    \/ \E c \in Cycles : NginxSettleDelay(c)
    \/ \E c \in Cycles : \E r \in Responses(cycles[c].att) : NginxResponse(c, r)
    \/ \E i \in 1..MaxLate, valid \in BOOLEAN : LateDomainValid(i, valid)
    \/ \E i \in 1..MaxLate, written \in BOOLEAN : LateOutputFile(i, written)

HealthSpec == HealthInit /\ [][HealthNext]_vars

\* Timers fire: an armed setTimeout callback runs after its delay.  Responses
\* and the steps of a verification attempt may never come.
HealthFairSpec ==
    /\ HealthSpec
    /\ WF_vars(PerformHealthCheck)
    /\ \A c \in Cycles : WF_vars(CaptainTimeout(c)) /\ WF_vars(NginxTimeout(c))

\* ------------------------------------------------------------------------
\* verifyCaptainOwnsDomainOrThrow called by the other users of the manager

FreeAttempts == {i \in AttemptIds : attempts[i].pc = "idle"}

\* verifyCaptainOwnsDomainOrThrow(domainName, identifierSuffix) is called
StartVerify(i, domainName, identifierSuffix) ==
    /\ Running
    /\ i \in FreeAttempts /\ \A j \in FreeAttempts : i <= j
    /\ attempts' = [attempts EXCEPT
                       ![i] = newAttempt(domainName, identifierSuffix, uuid)]
    /\ UNCHANGED <<sysVars, sslVars, healthVars, files>>

VerifyDomainValid(i, valid) ==
    /\ Running
    /\ attempts[i].pc = "valid"
    /\ attempts' = [attempts EXCEPT ![i] = domainValidOrThrow(@, valid)]
    /\ UNCHANGED <<sysVars, sslVars, healthVars, files>>

VerifyOutputFile(i, written) ==
    /\ Running
    /\ attempts[i].pc = "write"
    /\ attempts' = [attempts EXCEPT ![i] = outputFile(@, written)]
    /\ files' = filesAfterOutputFile(attempts[i], written)
    /\ UNCHANGED <<sysVars, sslVars, healthVars>>

VerifySettleDelay(i) ==
    /\ Running
    /\ attempts[i].pc = "delay"
    /\ attempts' = [attempts EXCEPT ![i] = settleDelay(@)]
    /\ UNCHANGED <<sysVars, sslVars, healthVars, files>>

VerifyResponse(i, r) ==
    /\ Running
    /\ attempts[i].pc = "get"
    /\ attempts' = [attempts EXCEPT ![i] = verifyRequestCallback(@, r[1], r[2])]
    /\ UNCHANGED <<sysVars, sslVars, healthVars, files>>

\* the constructor has run, initialize() has not started the health monitor
InitNoHealthCheck ==
    /\ isDebug = FALSE
    /\ consecutiveHealthCheckFailCount = 0
    /\ healthCheckUuid = 1
    /\ cycleUuid = 0
    /\ hcPending = 0
    /\ exitStatus = "running"
    /\ cycles = [c \in Cycles |-> NoCycle]
    /\ late = <<>>
    /\ failedInARow = 0

InitHealthIdle == hasCustomDomain = FALSE /\ InitNoHealthCheck

VerifyInit ==
    InitHealthIdle /\ InitVerify /\ InitSslIdle /\ InitConstructed /\ InitNoJoin /\ InitNoConfigCall

VerifyNext ==
    \/ \E i \in AttemptIds, d \in Domains, x \in Suffixes : StartVerify(i, d, x)
    \/ \E i \in AttemptIds, valid \in BOOLEAN : VerifyDomainValid(i, valid)
    \/ \E i \in AttemptIds, written \in BOOLEAN : VerifyOutputFile(i, written)
    \/ \E i \in AttemptIds : VerifySettleDelay(i)
    \/ \E i \in AttemptIds : \E r \in Responses(attempts[i]) : VerifyResponse(i, r)

VerifySpec == VerifyInit /\ [][VerifyNext]_vars

\* ------------------------------------------------------------------------
\* The SSL operations on their own: the health monitor is not running and
\* initialize() has refreshed the force-SSL mirror
InitSsl ==
    /\ storedHasRootSsl \in BOOLEAN
    /\ storedForceSsl \in BOOLEAN
    /\ storedForceSsl => storedHasRootSsl
    /\ hasForceSsl = storedForceSsl
    /\ rootDomain \in RootDomains
    /\ userEmailAddress = (IF storedHasRootSsl THEN "admin@root" ELSE "")
    /\ calls = [i \in CallIds |-> NoCall]

SslInit ==
    /\ InitSsl
    /\ hasCustomDomain \in BOOLEAN
    /\ storedHasRootSsl => hasCustomDomain
    /\ InitNoHealthCheck
    /\ InitVerify
    /\ InitRefreshed
    /\ InitNoJoin
    /\ InitNoConfigCall

SslNext ==
    \/ \E i \in CallIds, e \in Emails : EnableSslCall(i, e)
    \/ \E i \in CallIds, ok \in BOOLEAN : EnableSslIssue(i, ok)
    \/ \E i \in CallIds, ok \in BOOLEAN : EnableSslPersistEmail(i, ok)
    \/ \E i \in CallIds : EnableSslSetFlag(i)
    \/ \E i \in CallIds : EnableSslRegenerate(i)
    \/ \E i \in CallIds, ok \in BOOLEAN : EnableSslReload(i, ok)
    \/ \E i \in CallIds, ok \in BOOLEAN : EnableSslSettled(i, ok)
    \/ \E i \in CallIds, isEnabled \in BOOLEAN : ForceSslCall(i, isEnabled)
    \/ \E i \in CallIds : ForceSslCheck(i)
    \/ \E i \in CallIds : ForceSslRefresh(i)
    \/ \E i \in CallIds : ForceSslAssign(i)
    \/ \E i \in CallIds, d \in RootDomains : ChangeRootDomainCall(i, d)
    \/ \E i \in CallIds, error \in BOOLEAN,
          body \in {CaptainPublicRandomKey, EmptyBody, Garbage} :
            ChangeRootDomainVerified(i, error, body)
    \/ \E i \in CallIds : ChangeRootDomainCheck(i)
    \/ \E i \in CallIds : ChangeRootDomainRegenerate(i)
    \/ \E i \in CallIds, ok \in BOOLEAN : ChangeRootDomainReload(i, ok)
    \/ \E i \in CallIds, ok \in BOOLEAN : ChangeRootDomainSettled(i, ok)

SslSpec == SslInit /\ [][SslNext]_vars

\* ------------------------------------------------------------------------
\* The boot: the constructor has run, initialize() is called, and the health
\* monitor runs once the last callback of initialize() has started it
BootInit ==
    /\ isDebug \in BOOLEAN
    /\ hasCustomDomain \in BOOLEAN
    /\ consecutiveHealthCheckFailCount = 0
    /\ healthCheckUuid = 1
    /\ cycleUuid = 0
    /\ hcPending = 0
    /\ exitStatus = "running"
    /\ cycles = [c \in Cycles |-> NoCycle]
    /\ late = <<>>
    /\ failedInARow = 0
    /\ InitVerify
    /\ InitSslIdle
    /\ InitConstructed
    /\ InitNoJoin
    /\ InitNoConfigCall

BootSteps ==
    \/ Initialize
    \/ \E ok \in BOOLEAN : InitializeRefreshed(ok)
    \/ \E ok \in BOOLEAN, nodeId \in NodeIds : InitializeNodeId(ok, nodeId)
    \/ \E ok \in BOOLEAN, isManager \in BOOLEAN : InitializeIsManager(ok, isManager)
    \/ \E ok \in BOOLEAN : InitializeThen(ok)
    \/ \E ok \in BOOLEAN, secretHadExistedBefore \in BOOLEAN,
          secretContent \in SecretFiles :
            InitializeSecretAttached(ok, secretHadExistedBefore, secretContent)
    \/ \E ok \in BOOLEAN : InitializeMigrate(ok)
    \/ \E ok \in BOOLEAN, migrationPerformed \in BOOLEAN :
            InitializeMigrated(ok, migrationPerformed)
    \/ ResetSelfUpdateService
    \/ \E ok \in BOOLEAN, hasLocalRegistry \in BOOLEAN :
            InitializeRegistries(ok, hasLocalRegistry)
    \/ \E ok \in BOOLEAN : InitializeReady(ok)
    \/ ExitTimer

BootNext == BootSteps \/ HealthNext

BootSpec == BootInit /\ [][BootNext]_vars

\* a timer that is armed fires
BootFairSpec == BootSpec /\ WF_vars(ExitTimer)

\* ------------------------------------------------------------------------
\* getAuthenticator called by request handlers while initialize() runs
AuthInit ==
    /\ hasCustomDomain = FALSE
    /\ InitNoHealthCheck
    /\ InitVerify
    /\ InitSslIdle
    /\ InitConstructed
    /\ InitNoJoin
    /\ InitNoConfigCall

AuthNext ==
    \/ BootSteps
    \/ \E namespace \in Namespaces : GetAuthenticator(namespace)

AuthSpec == AuthInit /\ [][AuthNext]_vars

\* ------------------------------------------------------------------------
\* joinDockerNode and the events of its connection
JoinInit ==
    /\ hasCustomDomain = FALSE
    /\ InitNoHealthCheck
    /\ InitVerify
    /\ InitSslIdle
    /\ InitBooted
    /\ InitNoJoin
    /\ InitNoConfigCall

JoinNext ==
    \/ \E i \in JoinIds : JoinDockerNode(i)
    \/ \E i \in JoinIds, ok \in BOOLEAN : JoinConnect(i, ok)
    \/ \E i \in JoinIds : JoinConnError(i)
    \/ \E i \in JoinIds : JoinReady(i)
    \/ \E i \in JoinIds, err \in BOOLEAN : JoinExec(i, err)
    \/ \E i \in JoinIds : JoinStreamClose(i)
    \/ \E i \in JoinIds, data \in StderrTexts : JoinStderr(i, data)

JoinSpec == JoinInit /\ [][JoinNext]_vars

\* conn.exec calls its callback, and a command that has started ends
JoinFairSpec ==
    /\ JoinSpec
    /\ \A i \in JoinIds :
            /\ WF_vars(\E err \in BOOLEAN : JoinExec(i, err))
            /\ WF_vars(JoinStreamClose(i))

\* ------------------------------------------------------------------------
\* setNginxConfig called on a running system
ConfigInit ==
    /\ hasCustomDomain = FALSE
    /\ InitNoHealthCheck
    /\ InitVerify
    /\ InitSslIdle
    /\ InitBooted
    /\ InitNoJoin
    /\ InitNoConfigCall

ConfigNext ==
    \/ \E i \in ConfigCallIds, baseConfig \in NginxConfigs,
          captainConfig \in NginxConfigs :
            SetNginxConfigCall(i, baseConfig, captainConfig)
    \/ \E i \in ConfigCallIds, ok \in BOOLEAN : SetNginxConfigPersisted(i, ok)
    \/ \E i \in ConfigCallIds : ResetSelfTimer(i)
    \/ \E i \in ConfigCallIds, ok \in BOOLEAN : UpdateServiceSettled(i, ok)

ConfigSpec == ConfigInit /\ [][ConfigNext]_vars

\* ------------------------------------------------------------------------
\* Properties of the health monitor

UndecidedCycles == {c \in Cycles : Undecided(cycles[c])}

\* C1: the process exits with status 1 exactly when the 5th decided cycle in a
\* row with a failed probe is decided, never earlier, and a decided cycle with
\* two successful probes sets consecutiveHealthCheckFailCount back to 0.
C1_ExitOnFifthFailureInARow ==
    /\ exitStatus = "exit(1)" <=> failedInARow = 5
    /\ failedInARow <= 5
    /\ consecutiveHealthCheckFailCount = failedInARow
    /\ exitStatus \in {"running", "exit(1)"}

C1_Witness ==
    /\ exitStatus = "exit(1)"
    /\ cycles[1].decisions = 1
    /\ cycles[1].captainHealth = "ok" /\ cycles[1].nginxHealth = "fail"

\* C2: at most one cycle is undecided, and a timer for the next invocation is
\* armed only when both outcomes of every launched cycle are recorded.
C2_CyclesNeverOverlap ==
    /\ Cardinality(UndecidedCycles) <= 1
    /\ hcPending <= 1
    /\ hcPending > 0 =>
          \A c \in Cycles : cycles[c].launched =>
              cycles[c].captainHealth # "unset" /\ cycles[c].nginxHealth # "unset"
    /\ \A c \in Cycles : cycles[c].launched /\ ~Undecided(cycles[c]) =>
              cycles[c].captainHealth # "unset" /\ cycles[c].nginxHealth # "unset"

C2_Witness ==
    /\ hcPending = 1
    /\ cycles[1].decisions = 1
    /\ Len(late) = 1 /\ late[1].pc = "write"

\* a handler of the self-health probe of closure c runs
CaptainEvent(c) ==
    \/ CaptainTimeout(c)
    \/ \E error \in BOOLEAN, body \in {healthCheckUuid, EmptyBody, Garbage} :
          CaptainResponse(c, error, body)

\* a handler of the proxy-health probe of closure c runs
NginxEvent(c) ==
    \/ NginxTimeout(c)
    \/ \E valid \in BOOLEAN : NginxDomainValid(c, valid)
    \/ \E written \in BOOLEAN : NginxOutputFile(c, written)
    \/ NginxSettleDelay(c)
    \/ \E r \in Responses(cycles[c].att) : NginxResponse(c, r)

HealthQuiet ==
    UNCHANGED <<consecutiveHealthCheckFailCount, healthCheckUuid, hcPending,
                exitStatus>>

\* C3: each probe of a cycle records its outcome exactly once: the first of
\* its timeout and its real result sets the slot, and a handler that runs
\* after the slot is set changes neither the slots, the failure counter nor
\* the schedule.
C3_Recorded ==
    \A c \in Cycles :
        /\ cycles[c].cCalls <= 1 /\ cycles[c].nCalls <= 1
        /\ cycles[c].launched =>
              /\ cycles[c].captainHealth # "unset" <=> cycles[c].cCalls = 1
              /\ cycles[c].nginxHealth # "unset" <=> cycles[c].nCalls = 1
              /\ cycles[c].cCalled <=> cycles[c].cCalls = 1
              /\ cycles[c].nCalled <=> cycles[c].nCalls = 1

C3_Step ==
    \A c \in Cycles :
        /\ CaptainEvent(c) /\ cycles[c].cCalled =>
              /\ cycles'[c].captainHealth = cycles[c].captainHealth
              /\ cycles'[c].nginxHealth = cycles[c].nginxHealth
              /\ HealthQuiet
        /\ CaptainEvent(c) /\ ~cycles[c].cCalled =>
              cycles'[c].captainHealth \in {"ok", "fail"}
        /\ NginxEvent(c) /\ cycles[c].nCalled =>
              /\ cycles'[c].captainHealth = cycles[c].captainHealth
              /\ cycles'[c].nginxHealth = cycles[c].nginxHealth
              /\ HealthQuiet
        /\ NginxTimeout(c) /\ ~cycles[c].nCalled =>
              cycles'[c].nginxHealth = "fail"

C3_OutcomeRecordedOnce == []C3_Recorded /\ [][C3_Step]_vars

\* the response came first and the timeout fired after it, for both probes
C3_Witness ==
    /\ cycles[1].captainHealth = "ok" /\ ~cycles[1].cTimer
    /\ cycles[1].nginxHealth = "ok" /\ ~cycles[1].nTimer

\* C4: every started cycle is eventually decided and the next invocation
\* scheduled, by the timeouts alone, and performHealthCheck runs again and
\* again unless the process exits on the failure threshold.
C4_CycleDecidedAndRescheduled ==
    /\ (UndecidedCycles # {}) ~> (UndecidedCycles = {} /\ hcPending > 0)
    /\ []<>(<<PerformHealthCheck>>_vars) \/ <>(exitStatus = "exit(1)")

\* decided by the two timeouts: no response, no step of the verification
C4_Witness ==
    /\ cycles[1].decisions = 1 /\ hcPending = 1
    /\ cycles[1].cReq /\ cycles[1].att.pc = "valid"

\* C5: with the debug flag set or no custom domain, performHealthCheck
\* launches no probe, arms the timer of the next invocation and leaves the
\* failure counter alone, and the process never exits on the threshold.
C5_Skipped ==
    isDebug \/ ~hasCustomDomain =>
        /\ exitStatus = "running"
        /\ consecutiveHealthCheckFailCount = 0
        /\ \A c \in Cycles : ~cycles[c].launched
        /\ late = <<>>
        /\ \A p \in Paths : files[p] = EmptyBody

C5_Step ==
    PerformHealthCheck /\ (isDebug \/ ~hasCustomDomain) =>
        /\ UNCHANGED <<cycles, late, files, attempts, exitStatus,
                       consecutiveHealthCheckFailCount>>
        /\ hcPending' = 1

C5_NoProbesWithoutDomain == []C5_Skipped /\ [][C5_Step]_vars

C5_Witness ==
    /\ ~isDebug /\ ~hasCustomDomain
    /\ cycleUuid = 2 /\ hcPending = 1

\* C6: the token in force during an invocation of performHealthCheck differs
\* from the one in force during the previous invocation, and it does not
\* change while a launched cycle is undecided.
C6_Stable == UndecidedCycles # {} => healthCheckUuid = cycleUuid

C6_Step ==
    /\ PerformHealthCheck /\ cycleUuid # 0 => cycleUuid' # cycleUuid
    /\ UndecidedCycles # {} /\ UndecidedCycles' # {} =>
          healthCheckUuid' = healthCheckUuid

C6_FreshTokenPerCycle == []C6_Stable /\ [][C6_Step]_vars

C6_Witness ==
    /\ cycleUuid = 2 /\ healthCheckUuid = 2
    /\ Undecided(cycles[1])
    /\ consecutiveHealthCheckFailCount = 1

\* the closures decided in this step
DecidedNow == {c \in Cycles : cycles'[c].decisions = cycles[c].decisions + 1}

C19_Decisions ==
    \A c \in Cycles :
        /\ cycles[c].decisions <= 1
        /\ cycles[c].decisions = 1 =>
              /\ cycles[c].captainHealth # "unset"
              /\ cycles[c].nginxHealth # "unset"

C19_Step ==
    /\ Cardinality(DecidedNow) <= 1
    /\ DecidedNow # {} =>
          /\ \/ consecutiveHealthCheckFailCount' =
                    consecutiveHealthCheckFailCount + 1
             \/ consecutiveHealthCheckFailCount' = 0
          /\ hcPending' = hcPending + 1
          /\ healthCheckUuid' # healthCheckUuid
    /\ DecidedNow = {} =>
          /\ UNCHANGED consecutiveHealthCheckFailCount
          /\ hcPending' <= hcPending
          /\ ~PerformHealthCheck => UNCHANGED <<healthCheckUuid, hcPending>>

\* C19: a closure of performHealthCheck is decided at most once, and only
\* with both outcomes recorded; the step that decides it adds one to the
\* failure counter or resets it and schedules one next invocation, and no
\* other step of a probe handler touches the counter or the schedule.
C19_CycleDecidedOnce == []C19_Decisions /\ [][C19_Step]_vars

\* decided once with the proxy outcome recorded by its timeout before the
\* self-health response arrived
C19_Witness ==
    /\ cycles[1].decisions = 1
    /\ cycles[1].nginxHealth = "fail" /\ ~cycles[1].nTimer
    /\ cycles[1].captainHealth = "ok" /\ cycles[1].cTimer
    /\ consecutiveHealthCheckFailCount = 1

\* C20: the step in which the process exits with status 1 is a deciding
\* step that has assigned a new token and armed the timer of the next
\* invocation; the exit never happens with the schedule left as it was.
C20_ScheduledBeforeExit ==
    [][exitStatus = "running" /\ exitStatus' = "exit(1)" =>
          /\ DecidedNow # {}
          /\ consecutiveHealthCheckFailCount' > MAX_FAIL_ALLOWED
          /\ healthCheckUuid' # healthCheckUuid
          /\ hcPending' = hcPending + 1]_vars

C20_Witness ==
    /\ exitStatus = "exit(1)"
    /\ hcPending = 1
    /\ healthCheckUuid # cycleUuid
    /\ cycles[1].captainHealth = "fail" /\ cycles[1].nginxHealth = "fail"

C21_Step ==
    \A c \in Cycles :
        /\ \A error \in BOOLEAN, body \in {healthCheckUuid, EmptyBody, Garbage} :
              CaptainResponse(c, error, body) /\ ~cycles[c].cCalled =>
                  cycles'[c].captainHealth =
                      IF ~error /\ body # EmptyBody /\ body = healthCheckUuid
                      THEN "ok" ELSE "fail"
        /\ CaptainTimeout(c) /\ ~cycles[c].cCalled =>
              cycles'[c].captainHealth = "fail"
        /\ CaptainEvent(c) /\ cycles[c].cCalled =>
              cycles'[c].captainHealth = cycles[c].captainHealth
        /\ cycles[c].launched /\ cycles'[c].captainHealth = "ok"
                /\ cycles[c].captainHealth = "unset" /\ ~PerformHealthCheck =>
              cycles[c].cReq /\ ~cycles'[c].cReq

C21_Recorded ==
    \A c \in Cycles :
        /\ cycles[c].captainHealth = "ok" => ~cycles[c].cReq /\ cycles[c].cCalled
        /\ cycles[c].launched /\ ~cycles[c].cTimer /\ cycles[c].cReq =>
              cycles[c].captainHealth = "fail"

\* C21: the self-health probe records success exactly when its response is
\* handled before its timeout has fired, with no error and a non-empty body
\* equal to healthCheckUuid as it is at that moment; the timeout, an error,
\* an empty body or another body records failure, and a response that
\* comes after the timeout records nothing.
C21_SelfProbeSuccessIffToken == []C21_Recorded /\ [][C21_Step]_vars

\* one probe recorded success with its timeout still armed
C21_Witness ==
    /\ cycles[1].captainHealth = "ok" /\ cycles[1].cTimer
    /\ cycles[1].nginxHealth = "unset"
    /\ cycles[1].att.pc = "get"

\* ------------------------------------------------------------------------
\* Properties of the domain verifier

IsPrefix(s, t) == Len(s) <= Len(t) /\ s = SubSeq(t, 1, Len(s))

\* the GET of the attempt has been answered
Answered(a) == a.pc = "done" /\ Len(a.log) = 4

\* C7: for a domain that passes the validity check, the attempt succeeds if
\* and only if a body is served without error that equals the token this
\* attempt wrote; an error, an empty body or another body gives
\* VerificationFailed.
C7_VerifiedIffBodyIsOwnToken ==
    \A i \in AttemptIds :
        LET a == attempts[i]
        IN  /\ a.result = "ok" <=>
                  Answered(a) /\ ~a.error /\ a.body = a.randomUuid
            /\ Answered(a) /\ (a.error \/ a.body = EmptyBody
                                \/ a.body # a.randomUuid) =>
                  a.result = "VerificationFailed"
            /\ a.result = "VerificationFailed" => Answered(a)

\* one attempt succeeded and another read the token of the first
C7_Witness ==
    /\ attempts[1].result = "ok"
    /\ attempts[2].result = "VerificationFailed"
    /\ attempts[2].body = attempts[1].randomUuid
    /\ ~attempts[2].error

VerifyOrder == <<"valid", "write", "delay", "get">>

C23_Attempts ==
    \A i \in AttemptIds :
        LET a == attempts[i]
        IN  /\ IsPrefix(a.log, VerifyOrder)
            /\ a.pc = "idle" <=> a.randomUuid = 0
            /\ a.pc \in {"idle", "valid"} <=> a.log = <<>>
            /\ a.pc = "write" => a.log = <<"valid">>
            /\ a.pc = "delay" => a.log = <<"valid", "write">>
            /\ a.pc = "get" => a.log = VerifyOrder
            /\ a.pc = "done" <=> a.result # "none"
            /\ a.result = "CertbotError" <=> a.pc = "done" /\ a.log = <<"valid">>
            /\ a.result = "FsError" <=> a.pc = "done" /\ a.log = <<"valid", "write">>
            /\ a.result \in {"ok", "VerificationFailed"} => a.log = VerifyOrder
            /\ a.pc # "idle" =>
                  \A p \in Paths :
                      files[p] = a.randomUuid =>
                          /\ p = confirmationPath(a)
                          /\ Len(a.log) >= 2
                          /\ a.result # "FsError"

C23_Step ==
    \A i \in AttemptIds :
        /\ attempts[i].pc # "idle" =>
              /\ IsPrefix(attempts[i].log, attempts'[i].log)
              /\ attempts'[i].randomUuid = attempts[i].randomUuid
        /\ attempts[i].result # "none" => attempts'[i] = attempts[i]
        /\ attempts[i].pc \notin {"idle", "write"} =>
              \A p \in Paths :
                  files'[p] = attempts[i].randomUuid =>
                      files[p] = attempts[i].randomUuid

\* C23: an attempt runs the validity check, the write of the token, the
\* settle delay and the GET in that order, each at most once; its token is
\* only ever written to its own confirmation path, by its one write; when
\* the validity check fails nothing is written, no GET is issued and the
\* attempt ends with the error of the certificate manager, not with
\* VerificationFailed.
C23_OneWriteOneGetInOrder == []C23_Attempts /\ [][C23_Step]_vars

\* one attempt was stopped by the validity check, another ran to its GET
C23_Witness ==
    /\ attempts[1].result = "CertbotError"
    /\ attempts[1].log = <<"valid">>
    /\ attempts[2].result = "VerificationFailed"
    /\ attempts[2].log = VerifyOrder
    /\ attempts[2].error

\* the suffix a caller means: none when it is left out
SuffixMeant(identifierSuffix) ==
    IF identifierSuffix = "undefined" THEN "" ELSE identifierSuffix

\* every other attempt made so far is for another domain or another suffix
OwnPath(i) ==
    \A j \in AttemptIds \ {i} :
        attempts[j].pc # "idle" =>
            \/ attempts[j].domainName # attempts[i].domainName
            \/ SuffixMeant(attempts[j].identifierSuffix)
                    # SuffixMeant(attempts[i].identifierSuffix)

C24_OwnFile ==
    \A i \in AttemptIds :
        OwnPath(i) /\ attempts[i].pc \in {"delay", "get"} =>
            files[confirmationPath(attempts[i])] = attempts[i].randomUuid

C24_Step ==
    \A i \in AttemptIds :
        /\ OwnPath(i)
        /\ VerifyResponse(i, <<FALSE, files[confirmationPath(attempts[i])]>>)
        => attempts'[i].result = "ok"

\* C24: an attempt whose domain and suffix no other attempt shares keeps its
\* own token in its confirmation file from its write to its GET, whatever
\* the other attempts do in between, and succeeds when the GET is answered
\* with the content of that file: two attempts for one domain with
\* different suffixes both succeed.
C24_DifferentSuffixesDoNotInterfere == []C24_OwnFile /\ [][C24_Step]_vars

\* two attempts for one domain, one without suffix and one with, both
\* succeeded and each file holds the token of its attempt
C24_Witness ==
    /\ attempts[1].domainName = attempts[2].domainName
    /\ attempts[1].identifierSuffix = "undefined"
    /\ attempts[2].identifierSuffix = "-healthcheck"
    /\ attempts[1].result = "ok" /\ attempts[2].result = "ok"
    /\ files[confirmationPath(attempts[1])] = attempts[1].randomUuid
    /\ files[confirmationPath(attempts[2])] = attempts[2].randomUuid

\* ------------------------------------------------------------------------
\* Properties of the root SSL operations

\* the chain of call k has called collaborator `name`
Made(k, name) == \E n \in 1..Len(k.log) : k.log[n] = name

EnableSslOrder ==
    <<"ensureRegistered", "certbot.enableSsl", "setUserEmailAddress",
      "setHasRootSsl", "rePopulateNginxConfigFile", "sendReloadSignal">>

C8_Calls ==
    \A i \in CallIds :
        LET k == calls[i]
        IN  k.op = "enableSsl" =>
            /\ IsPrefix(k.log, EnableSslOrder)
            /\ k.result = <<"ok">> => k.log = EnableSslOrder
            /\ k.result[1] = "error" => k.result = ErrorOf(k.log[Len(k.log)])
            /\ k.result \in {ErrorOf("ensureRegistered"),
                             ErrorOf("certbot.enableSsl")} =>
                /\ ~Made(k, "setHasRootSsl")
                /\ ~Made(k, "rePopulateNginxConfigFile")
                /\ ~Made(k, "sendReloadSignal")

C8_Step ==
    /\ storedHasRootSsl' # storedHasRootSsl =>
            \E i \in CallIds :
                /\ calls[i].op = "enableSsl"
                /\ calls'[i].log = Append(calls[i].log, "setHasRootSsl")
    /\ \A i \in CallIds :
            /\ calls[i].op = "enableSsl"
            /\ calls[i].pc \in {"ensureRegistered", "certbot.enableSsl"}
            /\ calls'[i].pc = "done"
            => /\ storedHasRootSsl' = storedHasRootSsl
               /\ calls'[i].result = ErrorOf(calls[i].pc)

\* C8: every enableSsl call makes its collaborator calls in the order
\* register, issue, persist email, set root-SSL flag, regenerate, reload;
\* the flag is only ever set by the fourth of them; a call whose registration
\* or issuance fails ends there with that error, having set no flag and
\* regenerated and reloaded nothing.
C8_EnableSslOrderAndAbort == []C8_Calls /\ [][C8_Step]_vars

\* one call failed at issuance while another ran to the end
C8_Witness ==
    \E i, j \in CallIds :
        /\ calls[i].op = "enableSsl"
        /\ calls[i].result = ErrorOf("certbot.enableSsl")
        /\ calls[j].op = "enableSsl"
        /\ calls[j].result = <<"ok">>
        /\ storedHasRootSsl

PolicyErrorNoRootSsl == <<"error", STATUS_ERROR_GENERIC_NoRootSsl>>
PolicyErrorTooLate == <<"error", STATUS_ERROR_GENERIC_TooLate>>

C9_Calls ==
    \A i \in CallIds :
        LET k == calls[i]
        IN  k.op = "forceSsl" /\ k.isEnabled =>
            /\ k.result = PolicyErrorNoRootSsl => ~k.hasRootSsl
            /\ k.pc = "done" /\ ~k.hasRootSsl =>
                /\ k.result = PolicyErrorNoRootSsl
                /\ k.log = <<"getHasRootSsl">>
            /\ k.pc = "done" /\ k.hasRootSsl =>
                /\ k.result = <<"ok">>
                /\ Made(k, "setForceSsl")

C9_Step ==
    \A i \in CallIds :
        /\ calls[i].pc = "idle" /\ calls'[i].op = "forceSsl" =>
                calls'[i].hasRootSsl = storedHasRootSsl
        /\ calls[i].op = "forceSsl" /\ calls[i].isEnabled
                /\ calls'[i] # calls[i] =>
            IF calls[i].hasRootSsl
            THEN calls[i].pc = "getHasRootSsl" => storedForceSsl'
            ELSE /\ storedForceSsl' = storedForceSsl
                 /\ hasForceSsl' = hasForceSsl

\* C9: a forceSsl(true) call that finds the persisted root-SSL flag false ends
\* with the policy error, and no step of it changes the persisted force-SSL
\* flag or this.hasForceSsl; one that finds it true persists force-SSL = true
\* and ends successfully.
C9_ForceSslNeedsRootSsl == []C9_Calls /\ [][C9_Step]_vars

\* forceSsl(true) was refused although an enableSsl has set the flag since
C9_Witness ==
    \E i \in CallIds :
        /\ calls[i].op = "forceSsl"
        /\ calls[i].isEnabled
        /\ calls[i].result = PolicyErrorNoRootSsl
        /\ storedHasRootSsl
        /\ ~storedForceSsl

C10_Calls ==
    \A i \in CallIds :
        LET k == calls[i]
        IN  k.op = "changeCaptainRootDomain" /\ k.result = PolicyErrorTooLate =>
            /\ k.hasRootSsl
            /\ k.log = <<"verifyDomainResolvesToDefaultServerOnHost",
                         "getHasRootSsl">>

C10_Step ==
    /\ storedHasRootSsl => storedHasRootSsl'
    /\ \A i \in CallIds :
        /\ Pending(i, "changeCaptainRootDomain",
                   "verifyDomainResolvesToDefaultServerOnHost")
                /\ calls'[i].pc = "getHasRootSsl" =>
                calls'[i].hasRootSsl = storedHasRootSsl
        /\ Pending(i, "changeCaptainRootDomain", "getHasRootSsl")
                /\ calls'[i] # calls[i] =>
            IF calls[i].hasRootSsl /\ calls[i].domain # rootDomain
            THEN /\ calls'[i].pc = "done"
                 /\ calls'[i].result = PolicyErrorTooLate
                 /\ calls'[i].log = calls[i].log
                 /\ rootDomain' = rootDomain
            ELSE /\ calls'[i].pc = "setCustomDomain"
                 /\ rootDomain' = calls[i].domain

\* C10: root SSL, once enabled, stays enabled; a changeCaptainRootDomain(d)
\* call that finds it enabled and d different from the root domain ends with
\* the policy error without calling setCustomDomain, rePopulateNginxConfigFile
\* or sendReloadSignal, the root domain unchanged; with d equal to the root
\* domain the call goes on to setCustomDomain.
C10_NoDomainChangeUnderRootSsl == []C10_Calls /\ [][C10_Step]_vars

\* under root SSL one call was refused and one for the root domain itself
\* went through
C10_Witness ==
    \E i, j \in CallIds :
        /\ calls[i].op = "changeCaptainRootDomain"
        /\ calls[i].result = PolicyErrorTooLate
        /\ calls[i].domain # rootDomain
        /\ calls[j].op = "changeCaptainRootDomain"
        /\ calls[j].hasRootSsl
        /\ calls[j].domain = rootDomain
        /\ calls[j].result = <<"ok">>

\* ------------------------------------------------------------------------
\* Properties of joinDockerNode
\* ------------------------------------------------------------------------

\* the outcome is the one of the first stream event, whatever else happened
C12_FirstEventAlone ==
    \A i \in JoinIds :
        /\ join[i].first = "close" => join[i].result = <<"ok">>
        /\ join[i].first = "stderr" =>
                join[i].result = SetupError(join[i].text)

C12_Calls ==
    \A i \in JoinIds :
        /\ join[i].calls <= 1
        /\ join[i].hasExisted <=> join[i].first # "none"
        /\ join[i].first # "none" => join[i].calls = 1
        /\ join[i].first = "none" /\ join[i].pc \in {"streaming", "closed"} =>
                join[i].result \in {<<"pending">>, SshConnectionError}
        /\ join[i].first = "close" =>
                join[i].result \in {<<"ok">>, SshConnectionError}
        /\ join[i].first = "stderr" =>
                join[i].result \in {SetupError(join[i].text),
                                    SshConnectionError}
        /\ join[i].result = SshConnectionError => join[i].errors > 0

C12_Step ==
    \A i \in JoinIds :
        /\ join[i].result # <<"pending">> => join'[i].result = join[i].result
        /\ join[i].first # "none" =>
                /\ join'[i].first = join[i].first
                /\ join'[i].text = join[i].text
        /\ join[i].first = "none" /\ join[i].result = <<"pending">> =>
                /\ join'[i].first = "close" => join'[i].result = <<"ok">>
                /\ join'[i].first = "stderr" =>
                        /\ join'[i].text \in StderrTexts
                        /\ join'[i].result = SetupError(join'[i].text)

\* C12: after a successful exec, unless an SSH connection error has already
\* rejected the operation, the first of stream close and stderr data decides
\* the outcome: close first gives success, stderr data first gives the
\* failure carrying the emitted text.  The stream handlers settle the
\* promise at most once between them, later stream events are ignored, and
\* an outcome once decided never changes.
C12_FirstStreamEventDecides == []C12_Calls /\ [][C12_Step]_vars

\* both orders happened: a close followed by stderr data that stayed a
\* success, and stderr data followed by a close that stayed a failure
C12_Witness ==
    \E i, k \in JoinIds :
        /\ join[i].first = "close"
        /\ join[i].stderrs > 0
        /\ join[i].result = <<"ok">>
        /\ join[k].first = "stderr"
        /\ join[k].pc = "closed"
        /\ join[k].result = SetupError("fatal")

\* C13: in every joinDockerNode call whose SSH connection became ready, the
\* connection is eventually ended, whatever the outcome.
C13_ConnectionEnded ==
    \A i \in JoinIds : join[i].ready ~> join[i].ended

\* ------------------------------------------------------------------------
\* Properties of initialize()
\* ------------------------------------------------------------------------

\* nothing of the health monitor has run or is scheduled
NoHealthCheckYet ==
    /\ hcPending = 0
    /\ healthCheckUuid = 1
    /\ cycleUuid = 0
    /\ consecutiveHealthCheckFailCount = 0
    /\ cycles = [c \in Cycles |-> NoCycle]
    /\ late = <<>>

\* the steps of the chain that have begun; updateService is the timer inside
\* resetSelf
StepsBegun == SelectSeq(boot.log, LAMBDA name : name # "updateService")

\* the chain up to migrateIfNeeded, then resetSelf in place of the rest
ResetOrder == SubSeq(BootOrder, 1, 19) \o <<"resetSelf">>

C14_Boot ==
    /\ IsPrefix(StepsBegun, BootOrder) \/ IsPrefix(StepsBegun, ResetOrder)
    /\ IsPrefix(boot.resolved, StepsBegun)
    /\ Len(StepsBegun) <= Len(boot.resolved) + 1
    /\ inited =>
            /\ boot.pc = "done"
            /\ boot.result = <<"ok">>
            /\ boot.resolved = boot.log
            /\ boot.log \in {BootOrder, SubSeq(BootOrder, 1, Len(BootOrder) - 1)}
    /\ ~inited => NoHealthCheckYet

C14_Step ==
    /\ StepsBegun' # StepsBegun =>
            /\ IsPrefix(StepsBegun, StepsBegun')
            /\ IsPrefix(StepsBegun, boot'.resolved)
    /\ inited => inited'

C15_Failed ==
    boot.pc = "failed" =>
        /\ boot.result[1] = "error"
        /\ ~inited
        /\ NoHealthCheckYet
        /\ exitStatus \in {"running", "exit(0)"}
        /\ exitTimer <=> exitStatus = "running"

C15_Step == boot.pc = "failed" => boot' = boot /\ inited' = inited

\* C15: once a step of initialize has failed, no further step begins, inited
\* stays false, nothing of the health monitor runs or is scheduled, and the
\* timer armed by the catch handler ends the process with exit(0).
C15_FailureEndsInExit0 ==
    /\ []C15_Failed
    /\ [][C15_Step]_vars
    /\ (boot.pc = "failed") ~> (exitStatus = "exit(0)")

\* the secret file was empty and the process has exited
C15_Witness ==
    /\ boot.pc = "failed"
    /\ boot.result = <<"error", "Salt secret content is empty!">>
    /\ exitStatus = "exit(0)"

C16_Halted ==
    boot.secretHadExistedBefore = "no" =>
        /\ boot.pc = "halted"
        /\ ~Made(boot, "readSecretFile")
        /\ captainSalt = ""
        /\ ~inited
        /\ NoHealthCheckYet
        /\ ~exitTimer
        /\ exitStatus = "running"

C16_Step ==
    boot.pc = "halted" => boot' = boot /\ captainSalt' = captainSalt

\* C16: when ensureSecretOnService reports that the secret had not existed
\* before, initialize stays suspended: the secret file is not read, the salt
\* stays unset, inited stays false, nothing of the health monitor runs or is
\* scheduled, and the exit timer of the catch handler is not armed.
C16_SuspendsWhenSecretJustAttached == []C16_Halted /\ [][C16_Step]_vars

C16_Witness ==
    /\ boot.pc = "halted"
    /\ boot.secretHadExistedBefore = "no"
    /\ boot.resolved[Len(boot.resolved)] = "ensureSecretOnService"

C22_Reset ==
    Made(boot, "resetSelf") =>
        /\ boot.pc \in {"resetSelf", "updateService"}
        /\ boot.resolved = SubSeq(BootOrder, 1, 19)
        /\ boot.result = <<"none">>
        /\ ~Made(boot, "certbotManager.init")
        /\ ~Made(boot, "getAllRegistries")
        /\ ~Made(boot, "ensureDockerRegistryRunningOnThisNode")
        /\ ~inited
        /\ NoHealthCheckYet
        /\ ~exitTimer
        /\ exitStatus = "running"

C22_Step ==
    /\ boot.pc = "resetSelf" =>
            boot' = boot \/ boot' = invoked(boot, "updateService")
    /\ boot.pc = "updateService" => boot' = boot
    /\ boot.pc = "migrateIfNeeded" /\ boot'.pc \notin {"migrateIfNeeded", "failed"} =>
            \/ boot'.pc = "resetSelf"
            \/ boot'.pc = "certbotManager.init"

\* C22: when migrateIfNeeded reports a migration, initialize calls resetSelf
\* and waits on its promise, which never settles: certbotManager.init,
\* getAllRegistries and the registry step are never begun, inited stays
\* false, nothing of the health monitor runs or is scheduled, and the catch
\* handler does not run.  All that follows is the updateService request of
\* resetSelf's timer.
C22_MigrationEndsInReset == []C22_Reset /\ [][C22_Step]_vars

\* the update request of the self-reset has been issued
C22_Witness ==
    /\ boot.pc = "updateService"
    /\ boot.log[Len(boot.log) - 1] = "resetSelf"
    /\ captainSalt # ""

\* C18: myNodeId is set only after isNodeManager has answered that this node
\* is a manager, and is never changed once set; a boot on a non-manager node
\* never has it set.
C18_NodeIdAfterManagerCheck ==
    /\ [](myNodeId # "" => Made(boot, "emptyDir(captainRootDirectoryTemp)"))
    /\ [][myNodeId # "" => myNodeId' = myNodeId]_vars

\* ------------------------------------------------------------------------
\* Properties of getAuthenticator
\* ------------------------------------------------------------------------

\* this step is a getAuthenticator call for a namespace of `nss`
AuthCall(nss) == authReturn' # authReturn /\ authReturn'.namespace \in nss

C11_Cache ==
    /\ authenticatorCache[""] = NoAuthenticator
    /\ \A m, n \in 1..Len(authenticators) :
            authenticators[m].namespace = authenticators[n].namespace => m = n
    /\ \A n \in 1..Len(authenticators) :
            /\ authenticators[n].captainSalt \in Salts
            /\ authenticatorCache[authenticators[n].namespace] = n
    /\ \A ns \in Namespaces :
            authenticatorCache[ns] # NoAuthenticator =>
                /\ authenticatorCache[ns] \in 1..Len(authenticators)
                /\ authenticators[authenticatorCache[ns]].namespace = ns
    /\ authReturn.outcome = "return" =>
            /\ authReturn.value # NoAuthenticator
            /\ authReturn.value = authenticatorCache[authReturn.namespace]
    /\ authReturn.namespace = "" /\ authReturn.outcome # "none" =>
            authReturn.outcome = "STATUS_ERROR_NOT_AUTHORIZED"

C11_Step ==
    /\ IsPrefix(authenticators, authenticators')
    /\ \A ns \in Namespaces :
            authenticatorCache[ns] # NoAuthenticator =>
                authenticatorCache'[ns] = authenticatorCache[ns]
    /\ AuthCall({""}) =>
            /\ authReturn'.outcome = "STATUS_ERROR_NOT_AUTHORIZED"
            /\ UNCHANGED <<authenticatorCache, authenticators>>
    /\ AuthCall(Namespaces \ {""}) /\ captainSalt # "" =>
            /\ authReturn'.outcome = "return"
            /\ authReturn'.value = authenticatorCache'[authReturn'.namespace]
            /\ authReturn'.value # NoAuthenticator

\* C11: getAuthenticator("") always fails with the not-authorized error and
\* leaves the cache as it was; for a non-empty namespace, once the salt is
\* set, every call returns the instance held in the cache for that
\* namespace, at most one instance is ever constructed per namespace, and an
\* entry of the cache never changes.
C11_OneAuthenticatorPerNamespace == []C11_Cache /\ [][C11_Step]_vars

\* both namespaces have their instance and a call with the empty namespace
\* has just failed
C11_Witness ==
    /\ Len(authenticators) = 2
    /\ authenticatorCache["captain"] # NoAuthenticator
    /\ authenticatorCache["other"] # NoAuthenticator
    /\ authReturn.namespace = ""
    /\ authReturn.outcome = "STATUS_ERROR_NOT_AUTHORIZED"

\* the call is for a non-empty namespace that has no entry, before the salt
\* is set
C17_CallBeforeSalt ==
    /\ AuthCall(Namespaces \ {""})
    /\ authenticatorCache[authReturn'.namespace] = NoAuthenticator
    /\ captainSalt = ""

\* C17: getAuthenticator(ns) for a non-empty namespace that has no entry,
\* called while the salt is not set, returns nothing without an error and
\* leaves the cache as it was.
C17_ReturnsNothingBeforeSalt ==
    [][C17_CallBeforeSalt =>
            /\ authReturn'.outcome = "return"
            /\ authReturn'.value = NoAuthenticator
            /\ UNCHANGED <<authenticatorCache, authenticators>>]_vars

\* ------------------------------------------------------------------------
\* Properties of the SSL operations running together
\* ------------------------------------------------------------------------

\* C25: the persisted force-SSL flag is true only if the persisted root-SSL
\* flag is true, whatever enableSsl, forceSsl and changeCaptainRootDomain
\* calls have run or are running.
C25_ForceSslOnlyUnderRootSsl ==
    /\ storedForceSsl => storedHasRootSsl
    /\ \A i \in CallIds : calls[i].hasRootSsl => storedHasRootSsl

\* in this run enableSsl set the root-SSL flag and a forceSsl(true) that
\* was called after it set the force-SSL flag
C25_Witness ==
    /\ calls[1].op = "enableSsl" /\ calls[1].result = <<"ok">>
    /\ calls[2].op = "forceSsl" /\ calls[2].isEnabled
    /\ calls[2].result = <<"ok">>
    /\ storedForceSsl

\* the enableSsl calls that have asked for the certificate and not failed
CertificateRequested ==
    {i \in CallIds : /\ calls[i].op = "enableSsl"
                     /\ Made(calls[i], "certbot.enableSsl")
                     /\ calls[i].result[1] # "error"}

\* C27: whenever enableSsl has set the root-SSL flag the root domain is the
\* one its certificate was issued for, and the root domain is not changed
\* to another value once the flag is set or while an enableSsl call that has
\* asked for the certificate is running.
C27_RootDomainIsCertificateDomain ==
    /\ [](\A i \in CallIds :
            calls[i].op = "enableSsl" /\ Made(calls[i], "setHasRootSsl") =>
                rootDomain = calls[i].domain)
    /\ [][storedHasRootSsl \/ CertificateRequested # {} =>
            rootDomain' = rootDomain]_vars

\* no forceSsl call is running and one has ended successfully
ForceSslCompleted ==
    /\ \A i \in CallIds : calls[i].op = "forceSsl" => calls[i].pc = "done"
    /\ \E i \in CallIds : calls[i].op = "forceSsl" /\ calls[i].result = <<"ok">>

\* C28: once the forceSsl calls that ran together have completed
\* successfully, getForceSslValue() equals the persisted force-SSL flag.
C28_MirrorEqualsPersistedFlag ==
    ForceSslCompleted => getForceSslValue = storedForceSsl

\* ------------------------------------------------------------------------
\* Properties of the proxy-health probes of successive cycles
\* ------------------------------------------------------------------------

\* the attempt of closure c has written its token and not read it back yet
AwaitsOwnToken(c) ==
    Undecided(cycles[c]) /\ cycles[c].att.pc \in {"delay", "get"}

\* C29: the attempt of a cycle under way finds its own token in the
\* confirmation file from its write to its GET, whatever attempts of earlier
\* cycles still do, and its probe records success when the GET is answered
\* with the content of the file before the timeout.
C29_LaterCycleReadsOwnToken ==
    /\ [](\A c \in Cycles :
            AwaitsOwnToken(c) =>
                files[confirmationPath(cycles[c].att)] = cycles[c].att.randomUuid)
    /\ [][\A c \in Cycles :
            /\ ~cycles[c].nCalled
            /\ NginxResponse(c, <<FALSE, files[confirmationPath(cycles[c].att)]>>)
            => cycles'[c].nginxHealth = "ok"]_vars

\* ------------------------------------------------------------------------
\* Properties of setNginxConfig and its self-reset
\* ------------------------------------------------------------------------

C26_Calls ==
    \A i \in ConfigCallIds :
        LET k == configCalls[i]
        IN  /\ k.pc \in {"idle", "setNginxConfig", "done"}
            /\ k.pc = "done" <=> k.result # <<"none">>
            /\ k.timer \/ k.update # "none" =>
                  /\ k.pc = "done"
                  /\ k.result = <<"ok">>
            /\ k.result = <<"ok">> => k.timer \/ k.update # "none"
            /\ k.timer => k.update = "none"
            /\ k.update = "none" <=> k.args = <<>>
            /\ k.update # "none" =>
                  /\ Len(k.args) = 13
                  /\ \A n \in 1..Len(k.args) : k.args[n] = "undefined"

C26_Step ==
    \A i \in ConfigCallIds :
        LET k == configCalls[i]
            l == configCalls'[i]
        IN  /\ k.pc = "done" => l.pc = "done" /\ l.result = k.result
            /\ k.pc = "setNginxConfig" /\ l.result = <<"ok">> =>
                  /\ nginxConfig' = <<k.baseConfig, k.captainConfig>>
                  /\ l.timer /\ l.update = "none"
            /\ k.update = "none" /\ l.update # "none" =>
                  /\ k.timer /\ ~l.timer
                  /\ l.update = "pending"
            /\ k.update # "none" => l.args = k.args /\ ~l.timer

\* C26: a setNginxConfig call ends successfully in the step in which the
\* configuration is persisted, with the timer of resetSelf armed and no
\* update request issued yet; the updateService request is issued only by
\* that timer, with every argument after the service name undefined, and
\* whether it succeeds or fails the result of the call stays what it was.
C26_ResetNotAwaited == []C26_Calls /\ [][C26_Step]_vars

\* the call has ended successfully and the update request it triggered has
\* failed since
C26_Witness ==
    \E i \in ConfigCallIds :
        /\ configCalls[i].result = <<"ok">>
        /\ configCalls[i].update = "failed"
        /\ nginxConfig = <<configCalls[i].baseConfig,
                           configCalls[i].captainConfig>>

====
